---- MODULE Spec2Model ----
(***************************************************************************)
(* FreeHand AntiGravity: the AutoClicker engine (CDP control channel,      *)
(* polling loop, start/stop life cycle) and the decision routine that the  *)
(* loop evaluates in the remote page, together with the SafetyFilter       *)
(* blocklist; the ProcessHunter scan (process and port listings, probes,   *)
(* rounds and backoff) and the connection descriptor QuotaService.refresh  *)
(* keeps.                                                                  *)
(*                                                                         *)
(* Strings are sequences of one-character strings, so that trim,           *)
(* toLowerCase and includes are computed the way the code computes them.   *)
(***************************************************************************)
EXTENDS Integers, Sequences, FiniteSets, TLC

VARIABLES
    \* ---- AutoClicker fields (src/src/core/input-guard.ts:103-106)
    isRunning,      \* this.isRunning
    ws,             \* this.ws: a socket id, or NULL
    pollInterval,   \* this.pollInterval: a timer id, or NULL
    messageId,      \* this.messageId
    \* ---- the environment the fields refer to
    sockState,      \* socket id -> "none" | "connecting" | "open" | "closing" | "closed"
    timers,         \* the interval timers that are armed
    calls,          \* every sendCDP call that issued an id, in issue order
    starts,         \* the start() invocations and where each one is suspended
    \* ---- configuration and remote page
    cfg,            \* the stored value of the setting 'safety.blocklist'
    page,           \* the remote document a decision routine is evaluated in
    scriptOut,      \* the outcome of the decision routine, once evaluated
    \* ---- ProcessHunter (src/src/quota/process-hunter.ts) and its environment
    platform,       \* this.platform
    world,          \* what the operating system answers in each scan round
    scan,           \* the scanEnvironment() invocation and where it is suspended
    \* ---- QuotaService (src/unnamed/part_001) and its environment
    quota,          \* this.connectionInfo, the refresh() invocations, the requests
    service,        \* the other fields of the QuotaService: the answer a refresh
                    \* decodes, lastSnapshot and currentQuota; or monitorInterval,
                    \* the timers and the configuration listeners of monitoring
    \* ---- settings the commands write, the remote page, the SafetyFilter
    autoAccept,     \* the setting 'autoAccept.enabled': its value in this.config, the
                    \* updates in flight, and messageId when the value last changed
    remote,         \* the Runtime.evaluate calls the remote page has evaluated
    filter,         \* the SafetyFilter calls made so far, in order
    \* ---- the extension host (src/src/shared/logger.ts, status-bar.ts)
    host,           \* the settings 'autoRun.enabled' and 'multiTab.enabled', the
                    \* status bar, and the command invocations with where each
                    \* one is suspended
    \* ---- history
    stopped,        \* stop() has returned and start() was not called since
    event           \* what the last step did

lifeVars == <<isRunning, ws, pollInterval, messageId, sockState, timers, calls,
              starts, stopped, event>>
pageVars == <<cfg, page, scriptOut>>
hunterVars == <<platform, world, scan>>
quotaVars == <<quota, service>>
safetyVars == <<autoAccept, remote, filter, host>>
vars == <<isRunning, ws, pollInterval, messageId, sockState, timers, calls,
          starts, cfg, page, scriptOut, platform, world, scan, quota, service,
          autoAccept, remote, filter, host, stopped, event>>

(***************************************************************************)
(* Bounds of the model.                                                    *)
(***************************************************************************)
MaxButtons == 2     \* elements matched by the routine's selector in one page
MaxStarts  == 2     \* start() invocations in one run
MaxCalls   == 3     \* ids one run may issue
MaxAttempts == 2    \* the largest maxAttempts a scan is asked for
MaxRefreshes == 3   \* refresh() invocations in one run
MaxOps == 2         \* SafetyFilter calls in one run
MaxWrites == 1      \* updates of 'autoAccept.enabled' in flight at once
MaxModels == 2      \* entries of clientModelConfigs in one answer
MaxMonitorings == 2 \* startMonitoring() calls of the extension in one run
MaxChanges == 2     \* configuration changes in one run
MaxCommands == 3    \* command invocations of the extension host in one run
MaxTicks == 2       \* firings of the monitoring interval in one run

(***************************************************************************)
(* Program constants.                                                      *)
(***************************************************************************)
NULL == 0
MaxTextLen == 50

ACCEPT_PATTERNS ==
  << <<"a","c","c","e","p","t">>,
     <<"a","c","c","e","p","t"," ","a","l","l">>,
     <<"r","u","n">>,
     <<"r","u","n"," ","c","o","m","m","a","n","d">>,
     <<"a","p","p","l","y">>,
     <<"e","x","e","c","u","t","e">>,
     <<"r","e","t","r","y">>,
     <<"t","r","y"," ","a","g","a","i","n">>,
     <<"r","e","s","u","m","e">>,
     <<"c","o","n","f","i","r","m">>,
     <<"a","l","l","o","w"," ","o","n","c","e">>,
     <<"a","l","l","o","w">> >>

REJECT_PATTERNS ==
  << <<"s","k","i","p">>,
     <<"r","e","j","e","c","t">>,
     <<"c","a","n","c","e","l">>,
     <<"d","i","s","c","a","r","d">>,
     <<"d","e","n","y">>,
     <<"c","l","o","s","e">>,
     <<"r","e","f","i","n","e">>,
     <<"o","t","h","e","r">> >>

DEFAULT_BLOCKLIST ==
  << <<"r","m"," ","-","r","f"," ","/">>,
     <<"r","m"," ","-","r","f"," ","~">>,
     <<"r","m"," ","-","r","f"," ","*">>,
     <<"f","o","r","m","a","t"," ","c",":">>,
     <<"d","e","l"," ","/","f"," ","/","s"," ","/","q">>,
     <<"r","m","d","i","r"," ","/","s"," ","/","q">>,
     <<":","(",")","{",":","|",":","&","}",";",":">>,
     <<"d","d"," ","i","f","=">>,
     <<"m","k","f","s",".">>,
     <<">"," ","/","d","e","v","/","s","d","a">>,
     <<"c","h","m","o","d"," ","-","R"," ","7","7","7"," ","/">> >>

(***************************************************************************)
(* String primitives of the JavaScript runtime.                            *)
(***************************************************************************)
UpperCase == <<"A","B","C","D","E","F","G","H","I","J","K","L","M","N","O","P","Q","R","S","T","U","V","W","X","Y","Z">>
LowerCase == <<"a","b","c","d","e","f","g","h","i","j","k","l","m","n","o","p","q","r","s","t","u","v","w","x","y","z">>

ToLowerChar(c) ==
    IF \E i \in DOMAIN UpperCase : UpperCase[i] = c
    THEN LowerCase[CHOOSE i \in DOMAIN UpperCase : UpperCase[i] = c]
    ELSE c

\* String.prototype.toLowerCase
toLowerCase(s) == [i \in 1..Len(s) |-> ToLowerChar(s[i])]

\* String.prototype.trim: strips the leading and the trailing white space
trim(s) ==
    LET ink == {i \in 1..Len(s) : s[i] # " "}
    IN  IF ink = {} THEN <<>>
        ELSE SubSeq(s, CHOOSE i \in ink : \A j \in ink : i <= j,
                       CHOOSE i \in ink : \A j \in ink : i >= j)

\* String.prototype.includes: p occurs in s as a contiguous substring
includes(s, p) ==
    \E i \in 1..(Len(s) - Len(p) + 1) : SubSeq(s, i, i + Len(p) - 1) = p

\* Array.prototype.some over a list of patterns
some(patterns, text) == \E k \in DOMAIN patterns : includes(text, patterns[k])

(***************************************************************************)
(* ProcessHunter: scanEnvironment and the parsers it relies on.            *)
(***************************************************************************)
\* ---- regular-expression character classes
Digits == <<"0","1","2","3","4","5","6","7","8","9">>

\* \d
IsDigit(c) == \E i \in DOMAIN Digits : Digits[i] = c

\* \s (the only white space of these strings is the blank)
IsSpace(c) == c = " "

\* [=\s]
IsSeparator(c) == c = "=" \/ IsSpace(c)

IsLetter(c) ==
    \/ \E i \in DOMAIN LowerCase : LowerCase[i] = c
    \/ \E i \in DOMAIN UpperCase : UpperCase[i] = c

\* \w, the class \b is defined by
IsWordChar(c) == IsLetter(c) \/ IsDigit(c) \/ c = "_"

\* [a-zA-Z0-9-]
IsTokenChar(c) == IsLetter(c) \/ IsDigit(c) \/ c = "-"

\* [a-f0-9-] under the i flag
IsHexTokenChar(c) ==
    \/ IsDigit(c) \/ c = "-"
    \/ \E i \in 1..6 : LowerCase[i] = c \/ UpperCase[i] = c

\* c belongs to the character class
InClass(c, class) ==
    CASE class = "digit" -> IsDigit(c)
      [] class = "space" -> IsSpace(c)
      [] class = "nonspace" -> ~IsSpace(c)
      [] class = "separator" -> IsSeparator(c)
      [] class = "token" -> IsTokenChar(c)
      [] class = "hextoken" -> IsHexTokenChar(c)

\* the length of the longest run of characters of a class that starts at s[i]
Run(s, i, class) ==
    LET stops == {j \in i..Len(s) : ~InClass(s[j], class)}
    IN  IF i > Len(s) THEN 0
        ELSE IF stops = {} THEN Len(s) - i + 1
        ELSE (CHOOSE j \in stops : \A k \in stops : j <= k) - i

\* the literal p matches at s[i] (ignoreCase: the i flag)
MatchesAt(s, i, p, ignoreCase) ==
    /\ i + Len(p) - 1 <= Len(s)
    /\ p # <<>> => ToLowerChar(s[i]) = ToLowerChar(p[1])   \* first character first
    /\ IF ignoreCase
       THEN toLowerCase(SubSeq(s, i, i + Len(p) - 1)) = toLowerCase(p)
       ELSE SubSeq(s, i, i + Len(p) - 1) = p

\* parseInt(s, 10) of a string without sign or leading white space
NaN == -1

DigitValue(c) == (CHOOSE i \in DOMAIN Digits : Digits[i] = c) - 1

RECURSIVE digitsValue(_)
digitsValue(s) ==
    IF s = <<>> THEN 0
    ELSE digitsValue(SubSeq(s, 1, Len(s) - 1)) * 10 + DigitValue(s[Len(s)])

parseInt(s) ==
    IF Run(s, 1, "digit") = 0 THEN NaN
    ELSE digitsValue(SubSeq(s, 1, Run(s, 1, "digit")))

\* String.prototype.split(/\s+/) of a trimmed string
RECURSIVE split(_)
split(s) ==
    IF s = <<>> THEN <<>>
    ELSE LET n == Run(s, 1, "nonspace")
         IN  <<SubSeq(s, 1, n)>> \o split(trim(SubSeq(s, n + 1, Len(s))))

\* Array.prototype.join(' ')
RECURSIVE join(_)
join(parts) ==
    IF parts = <<>> THEN <<>>
    ELSE IF Len(parts) = 1 THEN parts[1]
    ELSE parts[1] \o <<" ">> \o join(Tail(parts))

\* ---- the flags and the marker
PORT_FLAG == <<"-","-","e","x","t","e","n","s","i","o","n","_","s","e","r","v","e","r","_","p","o","r","t">>
TOKEN_FLAG == <<"-","-","c","s","r","f","_","t","o","k","e","n">>
DATA_DIR_FLAG == <<"-","-","a","p","p","_","d","a","t","a","_","d","i","r">>
MARKER == <<"a","n","t","i","g","r","a","v","i","t","y">>

NoMatch == [matched |-> FALSE, group |-> <<>>]

\* String.prototype.match(/<flag>[=\s]+(<value class>+)/): the leftmost
\* place where the flag is followed by separators and then by a value; the
\* group is the whole run of value characters
matchFlag(s, flag, ignoreCase, class) ==
    LET hits == {i \in 1..Len(s) :
                    /\ MatchesAt(s, i, flag, ignoreCase)
                    /\ Run(s, i + Len(flag), "separator") >= 1
                    /\ Run(s, i + Len(flag) + Run(s, i + Len(flag), "separator"),
                           class) >= 1}
    IN  IF hits = {} THEN NoMatch
        ELSE LET i == CHOOSE h \in hits : \A k \in hits : h <= k
                 v == i + Len(flag) + Run(s, i + Len(flag), "separator")
             IN  [matched |-> TRUE,
                  group |-> SubSeq(s, v, v + Run(s, v, class) - 1)]

\* /--app_data_dir\s+antigravity\b/i.test(cmdLine)
testMarker(cmdLine) ==
    \E i \in 1..Len(cmdLine) :
        /\ MatchesAt(cmdLine, i, DATA_DIR_FLAG, TRUE)
        /\ LET n == Run(cmdLine, i + Len(DATA_DIR_FLAG), "space")
               m == i + Len(DATA_DIR_FLAG) + n
           IN  /\ n >= 1
               /\ MatchesAt(cmdLine, m, MARKER, TRUE)
               /\ \/ m + Len(MARKER) > Len(cmdLine)
                  \/ ~IsWordChar(cmdLine[m + Len(MARKER)])

\* a filter that looks for the marker alone
isAntigravityProcess_MarkerOnly(cmdLine) == testMarker(cmdLine)

\* isAntigravityProcess
isAntigravityProcess(cmdLine) ==
    /\ includes(cmdLine, PORT_FLAG)
    /\ includes(cmdLine, TOKEN_FLAG)
    /\ testMarker(cmdLine)

\* the ProcessInfo parseProcessInfo pushes for one accepted command line
candidateOf(pid, cmdLine, class) ==
    LET portMatch == matchFlag(cmdLine, PORT_FLAG, FALSE, "digit")
        tokenMatch == matchFlag(cmdLine, TOKEN_FLAG, TRUE, class)
    IN  IF tokenMatch.matched
        THEN << [pid |-> pid,
                 extensionPort |-> IF portMatch.matched
                                   THEN parseInt(portMatch.group) ELSE 0,
                 csrfToken |-> tokenMatch.group] >>
        ELSE <<>>

\* parseProcessInfo, the branch of the other platforms, for one line of ps
parseLine(line) ==
    LET parts == split(trim(line))
    IN  IF Len(parts) < 3 THEN <<>>
        ELSE LET pid == parseInt(parts[1])
                 cmd == join(SubSeq(parts, 3, Len(parts)))
             IN  IF pid = NaN \/ ~isAntigravityProcess(cmd) THEN <<>>
                 ELSE candidateOf(pid, cmd, "token")

\* parseProcessInfo, the win32 branch, for one item of the JSON array
parseItem(item) ==
    IF ~isAntigravityProcess(item.CommandLine) THEN <<>>
    ELSE IF item.ProcessId = 0 THEN <<>>
    ELSE candidateOf(item.ProcessId, item.CommandLine, "hextoken")

RECURSIVE parseProcessInfo(_, _)
parseProcessInfo(pf, stdout) ==
    IF stdout = <<>> THEN <<>>
    ELSE (IF pf = "win32" THEN parseItem(Head(stdout)) ELSE parseLine(Head(stdout)))
         \o parseProcessInfo(pf, Tail(stdout))

\* ---- listening ports
MinPort == 1024
MaxPort == 65535

\* a range test that lets the first unprivileged boundary through
inRange_Inclusive(port) == port >= MinPort /\ port <= MaxPort

\* parseListeningPorts: port > 1024 && port <= 65535
inRange(port) == port > MinPort /\ port <= MaxPort

\* Array.from(set).sort((a, b) => a - b)
RECURSIVE sortAscending(_)
sortAscending(set) ==
    IF set = {} THEN <<>>
    ELSE LET least == CHOOSE x \in set : \A y \in set : x <= y
         IN  <<least>> \o sortAscending(set \ {least})

\* parseListeningPorts: stdout is the sequence of its words (the maximal
\* runs of word characters); /\b\d{1,5}\b/g matches the words that are one
\* to five digits
parseListeningPorts(stdout) ==
    LET matches == {k \in DOMAIN stdout :
                       /\ Len(stdout[k]) \in 1..5
                       /\ Run(stdout[k], 1, "digit") = Len(stdout[k])}
    IN  sortAscending({parseInt(stdout[k]) : k \in
                          {m \in matches : inRange(parseInt(stdout[m]))}})

\* ---- what the operating system can answer
\* a process of the listing: its pid column and its command line
ROW_Complete == [pid |-> <<"4","2","4","2">>,
    cmd |-> <<"/","o","p","t","/","l","s"," ","-","-","e","x","t","e","n","s","i","o","n","_","s","e","r","v","e","r","_","p","o","r","t"," ","4","2","1","0","0"," ","-","-","c","s","r","f","_","t","o","k","e","n"," ","a","b","-","1","2"," ","-","-","a","p","p","_","d","a","t","a","_","d","i","r"," ","a","n","t","i","g","r","a","v","i","t","y">>]
ROW_EqualsForm == [pid |-> <<"5","1","5","1">>,
    cmd |-> <<"l","s"," ","-","-","c","s","r","f","_","t","o","k","e","n","=","C","D","3","4"," "," ","-","-","e","x","t","e","n","s","i","o","n","_","s","e","r","v","e","r","_","p","o","r","t","=","4","2","2","0","0"," ","-","-","a","p","p","_","d","a","t","a","_","d","i","r"," ","A","n","t","i","g","r","a","v","i","t","y"," ","-","-","x">>]
ROW_NoPortFlag == [pid |-> <<"4","2","4","2">>,
    cmd |-> <<"l","s"," ","-","-","c","s","r","f","_","t","o","k","e","n"," ","a","b","-","1","2"," ","-","-","a","p","p","_","d","a","t","a","_","d","i","r"," ","a","n","t","i","g","r","a","v","i","t","y">>]
ROW_NoTokenFlag == [pid |-> <<"4","2","4","2">>,
    cmd |-> <<"l","s"," ","-","-","e","x","t","e","n","s","i","o","n","_","s","e","r","v","e","r","_","p","o","r","t"," ","4","2","1","0","0"," ","-","-","a","p","p","_","d","a","t","a","_","d","i","r"," ","a","n","t","i","g","r","a","v","i","t","y">>]
ROW_NoMarker == [pid |-> <<"5","1","5","1">>,
    cmd |-> <<"l","s"," ","-","-","e","x","t","e","n","s","i","o","n","_","s","e","r","v","e","r","_","p","o","r","t"," ","4","2","2","0","0"," ","-","-","c","s","r","f","_","t","o","k","e","n"," ","C","D","3","4"," ","-","-","a","p","p","_","d","a","t","a","_","d","i","r"," ","w","i","n","d","s","u","r","f">>]
ROW_TokenNoValue == [pid |-> <<"5","1","5","1">>,
    cmd |-> <<"l","s"," ","-","-","e","x","t","e","n","s","i","o","n","_","s","e","r","v","e","r","_","p","o","r","t"," ","4","2","2","0","0"," ","-","-","a","p","p","_","d","a","t","a","_","d","i","r"," ","a","n","t","i","g","r","a","v","i","t","y"," ","-","-","c","s","r","f","_","t","o","k","e","n">>]
ROW_PortNoValue == [pid |-> <<"4","2","4","2">>,
    cmd |-> <<"l","s"," ","-","-","e","x","t","e","n","s","i","o","n","_","s","e","r","v","e","r","_","p","o","r","t"," ","-","-","c","s","r","f","_","t","o","k","e","n"," ","a","b","-","1","2"," ","-","-","a","p","p","_","d","a","t","a","_","d","i","r"," ","a","n","t","i","g","r","a","v","i","t","y">>]

TOKEN_A == <<"a","b","-","1","2">>
TOKEN_B == <<"C","D","3","4">>

\* the words of the port listing of a process
WORDS_A == <<<<"L","I","S","T","E","N">>, <<"0">>, <<"1","2","8">>, <<"1","2","7">>, <<"0">>, <<"0">>, <<"1">>, <<"4","2","1","0","0">>, <<"1","0","2","4">>, <<"1","0","2","5">>, <<"4","2","1","0","0">>, <<"6","5","5","3","6">>, <<"1","2","3","4","5","6">>, <<"p","i","d">>, <<"4","2","4","2">>, <<"f","d">>, <<"2","3">>>>
WORDS_B == <<<<"4","2","2","0","0">>, <<"u","s","e","r","s">>, <<"p","i","d">>, <<"5","1","5","1">>, <<"6","5","5","3","5">>>>
WORDS_Low == <<<<"8","0">>, <<"4","4","3">>, <<"1","0","2","4">>>>

Pids == {4242, 5151}

NetBoth == [p \in Pids |-> [ok |-> TRUE, words |-> IF p = 4242 THEN WORDS_A ELSE WORDS_B]]
NetFirstFails == [p \in Pids |-> [ok |-> p # 4242, words |-> IF p = 4242 THEN <<>> ELSE WORDS_B]]
NetNothing == [p \in Pids |-> [ok |-> TRUE, words |-> IF p = 4242 THEN WORDS_Low ELSE <<>>]]

\* the (port, token) pairs the server answers with status 200
UpBoth == {<<4242, TOKEN_A>>, <<42100, TOKEN_A>>, <<42200, TOKEN_B>>}
UpSecond == {<<42200, TOKEN_B>>}

\* one round of the environment: the process listing (ok: the command
\* succeeded), the port listing of each process, the answering servers
RoundWorlds ==
    { [ps |-> [ok |-> FALSE, rows |-> <<>>], net |-> NetBoth, up |-> UpBoth],
      [ps |-> [ok |-> TRUE,
               rows |-> <<ROW_NoPortFlag, ROW_NoTokenFlag, ROW_NoMarker, ROW_TokenNoValue>>],
       net |-> NetBoth, up |-> UpBoth],
      [ps |-> [ok |-> TRUE, rows |-> <<ROW_Complete>>], net |-> NetNothing, up |-> UpBoth],
      [ps |-> [ok |-> TRUE, rows |-> <<ROW_Complete, ROW_EqualsForm>>],
       net |-> NetFirstFails, up |-> UpSecond],
      [ps |-> [ok |-> TRUE, rows |-> <<ROW_Complete, ROW_EqualsForm>>],
       net |-> NetBoth, up |-> {}],
      [ps |-> [ok |-> TRUE, rows |-> <<ROW_NoTokenFlag, ROW_Complete, ROW_EqualsForm>>],
       net |-> NetBoth, up |-> UpBoth],
      [ps |-> [ok |-> TRUE, rows |-> <<ROW_PortNoValue, ROW_EqualsForm>>],
       net |-> NetBoth, up |-> UpSecond] }

Platforms == {"win32", "linux"}

\* the environment of a scan of m rounds
Worlds == UNION {[1..m -> RoundWorlds] : m \in 1..MaxAttempts}

\* the environment in round r (it stays what it was in the last round)
Answer(r) == world[IF r <= Len(world) THEN r ELSE Len(world)]

\* the stdout of getProcessListCommand: lines "pid ppid args" of ps, or the
\* items of the JSON array ConvertTo-Json prints
psOutput(pf, rows) ==
    IF pf = "win32"
    THEN [k \in DOMAIN rows |->
            [ProcessId |-> IF parseInt(rows[k].pid) = NaN THEN 0 ELSE parseInt(rows[k].pid),
             CommandLine |-> rows[k].cmd]]
    ELSE [k \in DOMAIN rows |->
            <<" ", " ">> \o rows[k].pid \o <<" ", " ", " ", "1", " ">> \o rows[k].cmd]

\* ---- scanEnvironment
\* the null scanEnvironment returns when no round gave a result (no
\* descriptor has port 0)
NoResult == [extensionPort |-> 0, connectPort |-> 0, csrfToken |-> <<>>]

\* i: the loop counter; candidates, k: the candidate list and the one in
\* hand; ports, j: its port list and the port in hand; history: rounds
\* begun, backoff waits completed, ports listed for, probes made
NewScan(m) ==
    [pc |-> "idle", maxAttempts |-> m, i |-> 0, candidates |-> <<>>, k |-> 0,
     ports |-> <<>>, j |-> 0, result |-> NoResult, rounds |-> 0, waits |-> 0,
     listed |-> <<>>, probes |-> <<>>]

\* a loop that runs once more than asked
loopContinues_OneMore(i, maxAttempts) == i <= maxAttempts

\* for (let i = 0; i < maxAttempts; i++)
loopContinues(i, maxAttempts) == i < maxAttempts

\* the loop test: the next round begins, or the loop ends and null is returned
Iterate(sc) ==
    IF loopContinues(sc.i, sc.maxAttempts)
    THEN [sc EXCEPT !.pc = "find", !.rounds = @ + 1, !.candidates = <<>>, !.k = 0,
                    !.ports = <<>>, !.j = 0]
    ELSE [sc EXCEPT !.pc = "done", !.result = NoResult, !.candidates = <<>>, !.k = 0,
                    !.ports = <<>>, !.j = 0]

\* a scan that gives up at the first round without a result
AfterRound_GiveUp(sc) == [sc EXCEPT !.pc = "done", !.result = NoResult]

\* the round is over without a result: if (i < maxAttempts - 1) wait, then i++
AfterRound(sc) ==
    IF sc.i < sc.maxAttempts - 1
    THEN [sc EXCEPT !.pc = "backoff"]
    ELSE Iterate([sc EXCEPT !.i = @ + 1])

\* the candidate in hand gave no result: the next one, or the round is over
AfterCandidate(sc) ==
    IF sc.k < Len(sc.candidates)
    THEN [sc EXCEPT !.pc = "ports", !.k = @ + 1, !.ports = <<>>, !.j = 0]
    ELSE AfterRound(sc)

\* identifyPorts returned: if (ports.length > 0) verifyConnection(...)
AfterPorts(sc, ports) ==
    IF Len(ports) > 0
    THEN [sc EXCEPT !.pc = "ping", !.ports = ports, !.j = 1]
    ELSE AfterCandidate(sc)

\* a port listing whose failure is not caught where it happens: it reaches
\* the catch of scanEnvironment, which ends the round
portsExecThrows(sc) == AfterRound(sc)

\* identifyPorts: the command fails or times out: catch { return [] }
portsExecFails(sc) == AfterPorts(sc, <<>>)

\* a descriptor built from the head of the candidate list
descriptorOfFirst(candidates, k, port) ==
    [extensionPort |-> candidates[1].extensionPort,
     connectPort |-> port,
     csrfToken |-> candidates[1].csrfToken]

\* the EnvironmentScanResult returned for candidate k and its verified port
descriptorOf(candidates, k, port) ==
    [extensionPort |-> candidates[k].extensionPort,
     connectPort |-> port,
     csrfToken |-> candidates[k].csrfToken]

\* scanEnvironment(maxAttempts) is called
scanEnvironment ==
    /\ scan.pc = "idle"
    /\ scan' = Iterate(scan)
    /\ UNCHANGED <<platform, world>>
    /\ UNCHANGED <<lifeVars, pageVars, quotaVars, safetyVars>>

\* the process listing command ends; findProcesses returns the candidates
findProcesses ==
    /\ scan.pc = "find"
    /\ LET ps == Answer(scan.i + 1).ps
           found == IF ps.ok THEN parseProcessInfo(platform, psOutput(platform, ps.rows))
                    ELSE <<>>
       IN  scan' = IF Len(found) > 0
                   THEN [scan EXCEPT !.pc = "ports", !.candidates = found, !.k = 1]
                   ELSE AfterRound(scan)
    /\ UNCHANGED <<platform, world>>
    /\ UNCHANGED <<lifeVars, pageVars, quotaVars, safetyVars>>

\* the port listing command for the candidate in hand ends
identifyPorts ==
    /\ scan.pc = "ports"
    /\ LET pid == scan.candidates[scan.k].pid
           out == Answer(scan.i + 1).net[pid]
           sc == [scan EXCEPT !.listed = Append(@, [round |-> scan.i + 1, pid |-> pid])]
       IN  scan' = IF out.ok THEN AfterPorts(sc, parseListeningPorts(out.words))
                   ELSE portsExecFails(sc)
    /\ UNCHANGED <<platform, world>>
    /\ UNCHANGED <<lifeVars, pageVars, quotaVars, safetyVars>>

\* the request pingPort sent to the port in hand ends (an answer, an error
\* or the timeout): verifyConnection returns the port on status 200 and
\* scanEnvironment returns the descriptor; otherwise the next port
pingPort ==
    /\ scan.pc = "ping"
    /\ LET port == scan.ports[scan.j]
           token == scan.candidates[scan.k].csrfToken
           ok == <<port, token>> \in Answer(scan.i + 1).up
           sc == [scan EXCEPT !.probes = Append(@,
                     [round |-> scan.i + 1, k |-> scan.k, port |-> port, ok |-> ok])]
       IN  scan' = IF ok
                   THEN [sc EXCEPT !.pc = "done",
                                   !.result = descriptorOf(scan.candidates, scan.k, port)]
                   ELSE IF scan.j < Len(scan.ports)
                   THEN [sc EXCEPT !.j = @ + 1]
                   ELSE AfterCandidate(sc)
    /\ UNCHANGED <<platform, world>>
    /\ UNCHANGED <<lifeVars, pageVars, quotaVars, safetyVars>>

\* the backoff timer between two rounds fires
backoff ==
    /\ scan.pc = "backoff"
    /\ scan' = Iterate([scan EXCEPT !.i = @ + 1, !.waits = @ + 1])
    /\ UNCHANGED <<platform, world>>
    /\ UNCHANGED <<lifeVars, pageVars, quotaVars, safetyVars>>

\* no scan was asked for and none is running
NoScan == [pc |-> "idle"]

HunterIdle ==
    /\ platform = "linux"
    /\ world = <<>>
    /\ scan = NoScan

(***************************************************************************)
(* QuotaService: refresh and the connection descriptor it keeps.           *)
(***************************************************************************)
RefreshIds == 1..MaxRefreshes

\* the descriptors a scan can return
DESCRIPTOR_A == [extensionPort |-> 42100, connectPort |-> 42101, csrfToken |-> TOKEN_A]
DESCRIPTOR_B == [extensionPort |-> 42200, connectPort |-> 42201, csrfToken |-> TOKEN_B]
Descriptors == {DESCRIPTOR_A, DESCRIPTOR_B}

\* connectionInfo: this.connectionInfo (NoResult: null); refreshes: where each
\* refresh() invocation is suspended, the descriptor its request was sent
\* with, whether it scanned; history: failed, the descriptors a request
\* failed with since a scan last verified them
NewQuota ==
    [connectionInfo |-> NoResult,
     refreshes |-> [p \in RefreshIds |->
                      [pc |-> "idle", using |-> NoResult, scanned |-> FALSE]],
     failed |-> {}]

\* Numbers of the answer are doubles; the model counts remaining fractions
\* in thousandths, so that a remaining percentage (the fraction times 100)
\* is a whole number of tenths of a percent, the same number.
ONE == 1000

\* quota.remainingFraction of an entry: a number, or absent
Fraction(f) == [defined |-> TRUE, value |-> f]
NoFraction == [defined |-> FALSE, value |-> 0]

\* cfg.quotaInfo of an entry of clientModelConfigs, or its absence
QuotaInfoOf(fraction) == [present |-> TRUE, remainingFraction |-> fraction]
NoQuotaInfo == [present |-> FALSE, remainingFraction |-> NoFraction]

\* the answer of GetUserStatus: userStatus (or none) and its
\* cascadeModelConfigData.clientModelConfigs
Response(user, configs) == [userStatus |-> user, clientModelConfigs |-> configs]

\* Math.min(1, Math.max(0, quota.remainingFraction ?? 0)) without the bounds
clamped_None(fraction) == IF fraction.defined THEN fraction.value ELSE 0

\* Math.min(1, Math.max(0, quota.remainingFraction ?? 0))
clamped(fraction) ==
    LET f == IF fraction.defined THEN fraction.value ELSE 0
        lower == IF f > 0 THEN f ELSE 0
    IN  IF lower < ONE THEN lower ELSE ONE

\* the entry decodeResponse pushes for a configuration that has quotaInfo
\* (the label and the reset time do not enter the summary)
ModelQuotaInfo(quotaInfo) ==
    LET remainingFraction == clamped(quotaInfo.remainingFraction)
    IN  [remainingFraction |-> remainingFraction,
         remainingPercentage |-> remainingFraction,
         isExhausted |-> remainingFraction <= 0]

\* the loop of decodeResponse over the configurations from the i-th on
RECURSIVE decodedModels(_, _)
decodedModels(configs, i) ==
    IF i > Len(configs) THEN <<>>
    ELSE IF ~configs[i].present THEN decodedModels(configs, i + 1)
    ELSE <<ModelQuotaInfo(configs[i])>> \o decodedModels(configs, i + 1)

\* decodeResponse: user?.cascadeModelConfigData?.clientModelConfigs || []
decodeResponse(response) ==
    [isConnected |-> TRUE,
     models |-> IF response.userStatus THEN decodedModels(response.clientModelConfigs, 1)
                ELSE <<>>]

\* the loop of calculateQuotaInfo: the lowest remainingPercentage, from 100
RECURSIVE lowest(_, _, _)
lowest(models, i, minPercentage) ==
    IF i > Len(models) THEN minPercentage
    ELSE lowest(models, i + 1,
                IF models[i].remainingPercentage < minPercentage
                THEN models[i].remainingPercentage ELSE minPercentage)

\* Math.round of a number of tenths that is not negative
round(tenths) == (tenths + 5) \div 10

\* this.config.get('quota.warningThreshold') ?? 30
warningThreshold(setting) == IF setting.defined THEN setting.value ELSE 30

\* calculateQuotaInfo: the status is decided on minPercentage as it is, the
\* percentage returned is minPercentage rounded
calculateQuotaInfo(snapshot, setting) ==
    IF ~snapshot.isConnected \/ Len(snapshot.models) = 0
    THEN [percentage |-> 0, status |-> "unknown"]
    ELSE LET minPercentage == lowest(snapshot.models, 1, 100 * 10)
         IN  [percentage |-> round(minPercentage),
              status |-> IF minPercentage <= 10 * 10 THEN "critical"
                         ELSE IF minPercentage <= warningThreshold(setting) * 10
                              THEN "warning" ELSE "ok"]

\* the fields of QuotaService a refresh writes once its request is answered:
\* response, the answer; threshold, the setting 'quota.warningThreshold';
\* lastSnapshot (null until a refresh decodes one) and currentQuota
NewService(response, threshold) ==
    [response |-> response, threshold |-> threshold, decoded |-> FALSE,
     lastSnapshot |-> [isConnected |-> FALSE, models |-> <<>>],
     currentQuota |-> [percentage |-> 100, status |-> "unknown"]]

\* no request was answered
NoService == [decoded |-> FALSE]

\* no refresh() was called
NoQuota == [connectionInfo |-> NoResult]

\* refresh(), once fetchUserStatus has resolved with the answer:
\* this.lastSnapshot = decodeResponse(response);
\* this.currentQuota = calculateQuotaInfo(this.lastSnapshot)
summarize ==
    /\ ~service.decoded
    /\ LET snapshot == decodeResponse(service.response)
       IN  service' = [service EXCEPT
                          !.decoded = TRUE,
                          !.lastSnapshot = snapshot,
                          !.currentQuota = calculateQuotaInfo(snapshot, service.threshold)]
    /\ UNCHANGED <<lifeVars, pageVars, hunterVars, safetyVars, quota>>

\* Monitoring.  monitorInterval: this.monitorInterval (NULL, or the timer
\* armed last); armed: the intervals armed and not cleared; listeners: the
\* callbacks startMonitoring has registered with config.onConfigChange
\* (their disposables are dropped, none is ever removed); refreshes: the
\* refresh() calls made (each as in refresh(p) above; here they are
\* counted).  History: arms, the timers armed so far; calls, changes,
\* ticks, what the run has used of its bounds; halted, stopMonitoring() was
\* called by the extension and startMonitoring() not since; op, the last
\* step; restarts, the restarts the last configuration change caused.
NewMonitor ==
    [monitorInterval |-> NULL, armed |-> {}, listeners |-> 0, refreshes |-> 0,
     arms |-> 0, calls |-> 0, changes |-> 0, ticks |-> 0,
     halted |-> FALSE, op |-> "none", restarts |-> 0]

\* startMonitoring(): nothing when an interval is held; else the initial
\* refresh(), a new interval, and one more configuration listener
startMonitoring(m) ==
    IF m.monitorInterval # NULL THEN m
    ELSE [m EXCEPT !.refreshes = @ + 1,
                   !.arms = @ + 1,
                   !.monitorInterval = m.arms + 1,
                   !.armed = @ \cup {m.arms + 1},
                   !.listeners = @ + 1]

\* stopMonitoring(): clearInterval and this.monitorInterval = null
stopMonitoring(m) ==
    IF m.monitorInterval = NULL THEN m
    ELSE [m EXCEPT !.armed = @ \ {m.monitorInterval}, !.monitorInterval = NULL]

\* restartMonitoring()
restartMonitoring(m) == startMonitoring(stopMonitoring(m))

\* the event of a configuration change delivered to n listeners, one after
\* the other (a listener registered meanwhile is not called for this event)
RECURSIVE fired(_, _)
fired(m, n) == IF n = 0 THEN m ELSE fired(restartMonitoring(m), n - 1)

\* the extension calls quotaService.startMonitoring() (activate)
monitoringStarts ==
    /\ service.calls < MaxMonitorings
    /\ service' = [startMonitoring(service) EXCEPT
                      !.calls = @ + 1, !.halted = FALSE, !.op = "start", !.restarts = 0]
    /\ UNCHANGED <<lifeVars, pageVars, hunterVars, safetyVars, quota>>

\* the extension calls quotaService.stopMonitoring() (deactivate)
monitoringStops ==
    /\ service' = [stopMonitoring(service) EXCEPT
                      !.halted = TRUE, !.op = "stop", !.restarts = 0]
    /\ UNCHANGED <<lifeVars, pageVars, hunterVars, safetyVars, quota>>

\* a setting of the extension changes: ConfigService fires onConfigChange
configChanges ==
    /\ service.changes < MaxChanges
    /\ service' = [fired(service, service.listeners) EXCEPT
                      !.changes = @ + 1, !.op = "change",
                      !.restarts = service.listeners]
    /\ UNCHANGED <<lifeVars, pageVars, hunterVars, safetyVars, quota>>

\* an armed interval fires: refresh()
monitorTick(t) ==
    /\ t \in service.armed
    /\ service.ticks < MaxTicks
    /\ service' = [service EXCEPT !.refreshes = @ + 1, !.ticks = @ + 1,
                                  !.op = "tick", !.restarts = 0]
    /\ UNCHANGED <<lifeVars, pageVars, hunterVars, safetyVars, quota>>

\* the QuotaService is left alone
QuotaIdle == quota = NoQuota /\ service = NoService

\* a catch block that keeps the descriptor
keptAfterError(connectionInfo) == connectionInfo

\* refresh(): catch { this.connectionInfo = null }
afterError(connectionInfo) == NoResult

\* refresh() is called (by the interval, by the command, by startMonitoring):
\* without a descriptor it suspends in scanEnvironment(2); with one it goes
\* straight to fetchUserStatus, which sends the request to
\* this.connectionInfo.connectPort
refresh(p) ==
    /\ quota.refreshes[p].pc = "idle"
    /\ \A q \in RefreshIds : q < p => quota.refreshes[q].pc # "idle"
    /\ quota' = IF quota.connectionInfo = NoResult
                THEN [quota EXCEPT !.refreshes[p].pc = "scan",
                                   !.refreshes[p].scanned = TRUE]
                ELSE [quota EXCEPT !.refreshes[p].pc = "fetch",
                                   !.refreshes[p].using = quota.connectionInfo]
    /\ UNCHANGED <<lifeVars, pageVars, hunterVars, safetyVars, service>>

\* scanEnvironment(2) returns d, a descriptor it has just verified or null:
\* this.connectionInfo = d; on null refresh returns 'unknown', otherwise
\* the request is sent
scanReturns(p, d) ==
    /\ quota.refreshes[p].pc = "scan"
    /\ quota' = IF d = NoResult
                THEN [quota EXCEPT !.connectionInfo = NoResult,
                                   !.refreshes[p].pc = "returned"]
                ELSE [quota EXCEPT !.connectionInfo = d,
                                   !.refreshes[p].pc = "fetch",
                                   !.refreshes[p].using = d,
                                   !.failed = @ \ {d}]
    /\ UNCHANGED <<lifeVars, pageVars, hunterVars, safetyVars, service>>

\* the request of fetchUserStatus ends.  error: the request fails or times
\* out, the body is empty or is not JSON, or decoding throws; otherwise the
\* snapshot is stored (whatever the status code of the answer)
fetchEnds(p, error) ==
    /\ quota.refreshes[p].pc = "fetch"
    /\ quota' = IF error
                THEN [quota EXCEPT !.connectionInfo = afterError(@),
                                   !.refreshes[p].pc = "failed",
                                   !.failed = @ \cup {quota.refreshes[p].using}]
                ELSE [quota EXCEPT !.refreshes[p].pc = "returned"]
    /\ UNCHANGED <<lifeVars, pageVars, hunterVars, safetyVars, service>>

(***************************************************************************)
(* The configuration store and the SafetyFilter.                           *)
(* A stored setting is [defined, value]: config.get returns undefined for  *)
(* a setting that was never written.                                       *)
(***************************************************************************)
Undefined == [defined |-> FALSE, value |-> <<>>]
Stored(list) == [defined |-> TRUE, value |-> list]

getBlocklist_Merged(c) ==
    IF c.defined THEN DEFAULT_BLOCKLIST \o c.value ELSE DEFAULT_BLOCKLIST

\* SafetyFilter.getBlocklist: the custom list when it is non-empty, else the default
getBlocklist(c) ==
    IF c.defined /\ Len(c.value) > 0 THEN c.value ELSE DEFAULT_BLOCKLIST

\* generateClickScript: the BLOCKLIST literal interpolated into the routine,
\* this.config.get('safety.blocklist') ?? []
scriptBlocklist(c) == IF c.defined THEN c.value ELSE <<>>

\* String.prototype.startsWith
startsWith(s, p) == Len(s) >= Len(p) /\ SubSeq(s, 1, Len(p)) = p

\* String.prototype.lastIndexOf for a one-character needle: the 0-based
\* index of its last occurrence, -1 when there is none
lastIndexOf(s, c) ==
    LET at == {i \in 1..Len(s) : s[i] = c}
    IN  IF at = {} THEN -1 ELSE (CHOOSE i \in at : \A j \in at : i >= j) - 1

\* String.prototype.substring with 0-based bounds, the end excluded
substring(s, from, to) == SubSeq(s, from + 1, to)

\* Array.prototype.includes over a list of strings
listIncludes(list, p) == \E k \in DOMAIN list : list[k] = p

\* Array.prototype.filter(x => x !== p)
RECURSIVE without(_, _)
without(list, p) ==
    IF list = <<>> THEN <<>>
    ELSE IF Head(list) = p THEN without(Tail(list), p)
    ELSE <<Head(list)>> \o without(Tail(list), p)

\* the flag letters the RegExp constructor knows
RegExpFlags == <<"d","g","i","m","s","u","v","y">>

HasFlag(flags, f) == \E k \in DOMAIN flags : flags[k] = f

\* new RegExp(source, flags) throws on an unknown or repeated flag, and on
\* u together with v
validFlags(flags) ==
    /\ \A k \in DOMAIN flags : \E f \in DOMAIN RegExpFlags : RegExpFlags[f] = flags[k]
    /\ \A k, l \in DOMAIN flags : k # l => flags[k] # flags[l]
    /\ ~(HasFlag(flags, "u") /\ HasFlag(flags, "v"))

\* the number of still open groups after each prefix of the source
RECURSIVE openGroups(_, _)
openGroups(source, n) ==
    IF n = 0 THEN 0
    ELSE openGroups(source, n - 1)
           + (IF source[n] = "(" THEN 1 ELSE IF source[n] = ")" THEN -1 ELSE 0)

\* new RegExp(source, flags) throws on an unterminated group and on an
\* unmatched ')'.  The sources checked are made of ordinary characters, '.'
\* and groups: no quantifier, class, alternative, anchor or escape.
validSource(source) ==
    /\ \A n \in 1..Len(source) : openGroups(source, n) >= 0
    /\ openGroups(source, Len(source)) = 0

\* the atoms a source of that kind matches in turn (a group matches what
\* it encloses)
RECURSIVE atomsOf(_)
atomsOf(source) ==
    IF source = <<>> THEN <<>>
    ELSE IF Head(source) \in {"(", ")"} THEN atomsOf(Tail(source))
    ELSE <<Head(source)>> \o atomsOf(Tail(source))

\* new RegExp(source, flags): ok is FALSE when the constructor throws
RegExp(source, flags) ==
    [ok |-> validFlags(flags) /\ validSource(source),
     atoms |-> atomsOf(source),
     ignoreCase |-> HasFlag(flags, "i"),
     dotAll |-> HasFlag(flags, "s"),
     sticky |-> HasFlag(flags, "y")]

\* one atom against one character: '.' takes any character but a line
\* terminator (any at all with the s flag), another atom takes itself, in
\* either case with the i flag
atomMatches(regex, a, c) ==
    IF a = "." THEN regex.dotAll \/ c # "\n"
    ELSE IF regex.ignoreCase THEN ToLowerChar(a) = ToLowerChar(c)
    ELSE a = c

\* RegExp.prototype.test on a regex just built (lastIndex 0): a match
\* anywhere in the text, at its start only with the y flag
test(regex, text) ==
    \E i \in 1..(Len(text) - Len(regex.atoms) + 1) :
        /\ regex.sticky => i = 1
        /\ \A k \in DOMAIN regex.atoms : atomMatches(regex, regex.atoms[k], text[i + k - 1])

matchesLiteral_CaseSensitive(command, pattern) == includes(command, trim(pattern))

\* isBlocked's literal match: lowerCommand.includes(lowerPattern), with
\* lowerCommand = command.toLowerCase() and
\* lowerPattern = pattern.toLowerCase().trim()
matchesLiteral(command, pattern) ==
    includes(toLowerCase(command), trim(toLowerCase(pattern)))

\* isBlocked's test of one entry that has the form /pattern/flags
matchesRegexEntry(command, pattern) ==
    LET lastSlash == lastIndexOf(pattern, "/")
        regexPattern == substring(pattern, 1, lastSlash)
        given == substring(pattern, lastSlash + 1, Len(pattern))
        flags == IF given = <<>> THEN <<"i">> ELSE given
        regex == RegExp(regexPattern, flags)
    IN  IF regex.ok THEN test(regex, command)
        ELSE matchesLiteral(command, pattern)

\* pattern.startsWith('/') && pattern.lastIndexOf('/') > 0
isRegexEntry(pattern) == startsWith(pattern, <<"/">>) /\ lastIndexOf(pattern, "/") > 0

\* the body of isBlocked's loop for one entry: does it return true
entryBlocks(command, pattern) ==
    IF Len(trim(toLowerCase(pattern))) = 0 THEN FALSE
    ELSE IF isRegexEntry(pattern) THEN matchesRegexEntry(command, pattern)
    ELSE matchesLiteral(command, pattern)

\* SafetyFilter.isBlocked over the stored setting c
isBlocked(c, command) ==
    LET blocklist == getBlocklist(c)
    IN  \E k \in DOMAIN blocklist : entryBlocks(command, blocklist[k])

(***************************************************************************)
(* The SafetyFilter's methods as calls, one after the other: each awaits   *)
(* config.set, whose update reaches this.config (onDidChangeConfiguration) *)
(* before the call returns.  filter is the list of the calls made.         *)
(***************************************************************************)
FilterCall(op, arg, before, list, blocked) ==
    [op |-> op, arg |-> arg, before |-> before, list |-> list, blocked |-> blocked]

\* getBlocklist()
getBlocklistCall ==
    /\ Len(filter) < MaxOps
    /\ filter' = Append(filter, FilterCall("getBlocklist", <<>>, cfg, getBlocklist(cfg), FALSE))
    /\ UNCHANGED <<cfg, page, scriptOut, autoAccept, remote, host>>
    /\ UNCHANGED <<lifeVars, hunterVars, quotaVars>>

\* isBlocked(command)
isBlockedCall(command) ==
    /\ Len(filter) < MaxOps
    /\ filter' = Append(filter, FilterCall("isBlocked", command, cfg, <<>>, isBlocked(cfg, command)))
    /\ UNCHANGED <<cfg, page, scriptOut, autoAccept, remote, host>>
    /\ UNCHANGED <<lifeVars, hunterVars, quotaVars>>

\* what addToBlocklist(pattern) leaves in the store
addedTo(c, pattern) ==
    LET current == getBlocklist(c)
    IN  IF ~listIncludes(current, pattern) THEN Stored(Append(current, pattern)) ELSE c

\* what removeFromBlocklist(pattern) leaves in the store: it always writes
removedFrom(c, pattern) == Stored(without(getBlocklist(c), pattern))

resetTo_Empty == Stored(<<>>)

\* what resetBlocklist() leaves in the store
resetTo == Stored(DEFAULT_BLOCKLIST)

addToBlocklist(pattern) ==
    /\ Len(filter) < MaxOps
    /\ cfg' = addedTo(cfg, pattern)
    /\ filter' = Append(filter, FilterCall("add", pattern, cfg, <<>>, FALSE))
    /\ UNCHANGED <<page, scriptOut, autoAccept, remote, host>>
    /\ UNCHANGED <<lifeVars, hunterVars, quotaVars>>

removeFromBlocklist(pattern) ==
    /\ Len(filter) < MaxOps
    /\ cfg' = removedFrom(cfg, pattern)
    /\ filter' = Append(filter, FilterCall("remove", pattern, cfg, <<>>, FALSE))
    /\ UNCHANGED <<page, scriptOut, autoAccept, remote, host>>
    /\ UNCHANGED <<lifeVars, hunterVars, quotaVars>>

resetBlocklist ==
    /\ Len(filter) < MaxOps
    /\ cfg' = resetTo
    /\ filter' = Append(filter, FilterCall("reset", <<>>, cfg, <<>>, FALSE))
    /\ UNCHANGED <<page, scriptOut, autoAccept, remote, host>>
    /\ UNCHANGED <<lifeVars, hunterVars, quotaVars>>

\* 'autoAccept.enabled' as this.config has it (the extension enables it by
\* default), with no update in flight; nothing evaluated; no filter call made
\* no command of the extension host is looked at
NoHost == [commands |-> <<>>]

SafetyIdle ==
    /\ autoAccept = [value |-> TRUE, writes |-> <<>>, since |-> 0]
    /\ remote = {}
    /\ filter = <<>>
    /\ host = NoHost

(***************************************************************************)
(* The decision routine (the function generateClickScript returns as text) *)
(* evaluated over a document: activeEl is document.activeElement, buttons  *)
(* is the node list of querySelectorAll in document order.                 *)
(***************************************************************************)

\* el.closest('.cls'): the element or an ancestor carries the class token cls
closestClass(el, cls) ==
    \E k \in DOMAIN el.classChain : \E t \in DOMAIN el.classChain[k] :
        el.classChain[k][t] = cls

\* el.closest('[class*="sub"]'): the class attribute of the element or of an
\* ancestor contains sub; sub has no blank, so it lies inside one token
closestClassContains(el, sub) ==
    \E k \in DOMAIN el.classChain : \E t \in DOMAIN el.classChain[k] :
        includes(el.classChain[k][t], sub)

isUserTyping_NoEditable(activeEl) ==
    IF ~activeEl.present THEN FALSE
    ELSE LET tagName == toLowerCase(activeEl.tagName)
         IN  \/ tagName = <<"i","n","p","u","t">>
             \/ tagName = <<"t","e","x","t","a","r","e","a">>
             \/ closestClass(activeEl, <<"m","o","n","a","c","o","-","e","d","i","t","o","r">>)
             \/ closestClassContains(activeEl, <<"i","n","p","u","t">>)
             \/ closestClass(activeEl, <<"P","r","o","s","e","M","i","r","r","o","r">>)

isUserTyping(activeEl) ==
    IF ~activeEl.present THEN FALSE
    ELSE LET tagName == toLowerCase(activeEl.tagName)
         IN  \/ tagName = <<"i","n","p","u","t">>
             \/ tagName = <<"t","e","x","t","a","r","e","a">>
             \/ activeEl.isContentEditable
             \/ closestClass(activeEl, <<"m","o","n","a","c","o","-","e","d","i","t","o","r">>)
             \/ closestClassContains(activeEl, <<"i","n","p","u","t">>)
             \/ closestClass(activeEl, <<"P","r","o","s","e","M","i","r","r","o","r">>)

isCommandBlocked(text, BLOCKLIST) ==
    LET lowerText == toLowerCase(text)
    IN  \E k \in DOMAIN BLOCKLIST : includes(lowerText, toLowerCase(BLOCKLIST[k]))

isAcceptButton_AcceptFirst(el) ==
    LET text == toLowerCase(trim(el.textContent))
    IN  IF Len(text) = 0 \/ Len(text) > MaxTextLen THEN FALSE
        ELSE IF some(ACCEPT_PATTERNS, text)
             THEN ~(el.display = "none" \/ el.width = 0)
                  /\ ~(el.pointerEvents = "none" \/ el.disabled)
        ELSE FALSE

isAcceptButton_NoVisibility(el) ==
    LET text == toLowerCase(trim(el.textContent))
    IN  IF Len(text) = 0 \/ Len(text) > MaxTextLen THEN FALSE
        ELSE IF some(REJECT_PATTERNS, text) THEN FALSE
        ELSE IF ~some(ACCEPT_PATTERNS, text) THEN FALSE
        ELSE IF el.pointerEvents = "none" THEN FALSE
        ELSE TRUE

isAcceptButton(el) ==
    LET text == toLowerCase(trim(el.textContent))
    IN  IF Len(text) = 0 \/ Len(text) > MaxTextLen THEN FALSE
        ELSE IF some(REJECT_PATTERNS, text) THEN FALSE
        ELSE IF ~some(ACCEPT_PATTERNS, text) THEN FALSE
        ELSE IF el.display = "none" \/ el.width = 0 THEN FALSE
        ELSE IF el.pointerEvents = "none" \/ el.disabled THEN FALSE
        ELSE TRUE

\* the safety gate of the loop body: the button text names a command
\* execution and the pre/code found next to it is on the BLOCKLIST
safetyGateBlocks(btn, BLOCKLIST) ==
    LET text == trim(btn.textContent)
    IN  /\ \/ includes(toLowerCase(text), <<"r","u","n">>)
           \/ includes(toLowerCase(text), <<"e","x","e","c","u","t","e">>)
        /\ btn.pre.present
        /\ isCommandBlocked(btn.pre.textContent, BLOCKLIST)

\* what the loop does once the gate has blocked element i
abortAfterBlocked(buttons, i) == Len(buttons) + 1

\* `continue`: go on with the element after i
continueAfterBlocked(buttons, i) == i + 1

RECURSIVE clickLoop(_, _, _, _)
clickLoop(buttons, i, BLOCKLIST, acc) ==
    IF i > Len(buttons) THEN acc
    ELSE IF ~isAcceptButton(buttons[i])
         THEN clickLoop(buttons, i + 1, BLOCKLIST, acc)
    ELSE IF safetyGateBlocks(buttons[i], BLOCKLIST)
         THEN clickLoop(buttons, continueAfterBlocked(buttons, i), BLOCKLIST, acc)
    ELSE clickLoop(buttons, i + 1, BLOCKLIST,
                   [clicked |-> acc.clicked + 1, clicks |-> Append(acc.clicks, i)])

\* The whole routine: the value it returns (clicked, skipped) and the
\* elements it called click() on, in order
clickScript(doc, BLOCKLIST) ==
    IF isUserTyping(doc.activeEl)
    THEN [ran |-> TRUE, clicked |-> 0, skipped |-> "user typing", clicks |-> <<>>]
    ELSE LET acc == clickLoop(doc.buttons, 1, BLOCKLIST, [clicked |-> 0, clicks |-> <<>>])
         IN  [ran |-> TRUE, clicked |-> acc.clicked, skipped |-> "null", clicks |-> acc.clicks]

NotRun == [ran |-> FALSE, clicked |-> 0, skipped |-> "null", clicks |-> <<>>]

(***************************************************************************)
(* The documents and settings the routine is checked on.                   *)
(***************************************************************************)
LongText == [i \in 1..(MaxTextLen + 1) |-> IF i <= 6 THEN <<"a","c","c","e","p","t">>[i] ELSE "x"]

\* Elements the selector 'button, [role="button"], [class*="button"]' matches.
\* pre is btn.closest('div')?.querySelector('pre, code').
Elements ==
  { [textContent |-> <<" ","R","u","n"," ","c","o","m","m","a","n","d"," ">>, display |-> "block", width |-> 80,
       pointerEvents |-> "auto", disabled |-> FALSE,
       pre |-> [present |-> TRUE, textContent |-> <<"r","m"," ","-","r","f"," ","/">>]],
    [textContent |-> <<"R","u","n"," ","c","o","m","m","a","n","d">>, display |-> "block", width |-> 80,
       pointerEvents |-> "auto", disabled |-> FALSE,
       pre |-> [present |-> TRUE, textContent |-> <<"l","s"," ","-","l","a">>]],
    [textContent |-> <<"A","c","c","e","p","t">>, display |-> "block", width |-> 80,
       pointerEvents |-> "auto", disabled |-> FALSE,
       pre |-> [present |-> FALSE, textContent |-> <<>>]],
    [textContent |-> <<"S","k","i","p"," ","a","n","d"," ","R","u","n">>, display |-> "block", width |-> 80,
       pointerEvents |-> "auto", disabled |-> FALSE,
       pre |-> [present |-> FALSE, textContent |-> <<>>]],
    [textContent |-> <<"E","X","E","C","U","T","E">>, display |-> "block", width |-> 80,
       pointerEvents |-> "auto", disabled |-> FALSE,
       pre |-> [present |-> TRUE, textContent |-> <<"R","M"," ","-","R","F"," ","/","t","m","p">>]],
    [textContent |-> <<"A","c","c","e","p","t"," ","a","l","l">>, display |-> "none", width |-> 80,
       pointerEvents |-> "auto", disabled |-> FALSE,
       pre |-> [present |-> FALSE, textContent |-> <<>>]],
    [textContent |-> <<"A","l","l","o","w">>, display |-> "block", width |-> 0,
       pointerEvents |-> "auto", disabled |-> FALSE,
       pre |-> [present |-> FALSE, textContent |-> <<>>]],
    [textContent |-> <<"A","p","p","l","y">>, display |-> "block", width |-> 80,
       pointerEvents |-> "none", disabled |-> FALSE,
       pre |-> [present |-> FALSE, textContent |-> <<>>]],
    [textContent |-> <<"R","e","t","r","y">>, display |-> "block", width |-> 80,
       pointerEvents |-> "auto", disabled |-> TRUE,
       pre |-> [present |-> FALSE, textContent |-> <<>>]],
    [textContent |-> <<"D","e","t","a","i","l","s">>, display |-> "block", width |-> 80,
       pointerEvents |-> "auto", disabled |-> FALSE,
       pre |-> [present |-> FALSE, textContent |-> <<>>]],
    [textContent |-> <<" "," "," ">>, display |-> "block", width |-> 80,
       pointerEvents |-> "auto", disabled |-> FALSE,
       pre |-> [present |-> FALSE, textContent |-> <<>>]],
    [textContent |-> LongText, display |-> "block", width |-> 80,
       pointerEvents |-> "auto", disabled |-> FALSE,
       pre |-> [present |-> FALSE, textContent |-> <<>>]] }

\* document.activeElement; classChain lists the class tokens of the element
\* and of each of its ancestors
Focuses ==
  { [present |-> FALSE, tagName |-> <<>>, isContentEditable |-> FALSE,
       classChain |-> <<>>],
    [present |-> TRUE, tagName |-> <<"B","O","D","Y">>, isContentEditable |-> FALSE,
       classChain |-> <<>>],
    [present |-> TRUE, tagName |-> <<"B","U","T","T","O","N">>, isContentEditable |-> FALSE,
       classChain |-> <<<<<<"b","t","n">>, <<"p","r","i","m","a","r","y">>>>, <<<<"t","o","o","l","b","a","r">>>>>>],
    [present |-> TRUE, tagName |-> <<"I","N","P","U","T">>, isContentEditable |-> FALSE,
       classChain |-> <<>>],
    [present |-> TRUE, tagName |-> <<"T","E","X","T","A","R","E","A">>, isContentEditable |-> FALSE,
       classChain |-> <<<<<<"i","n","p","u","t","a","r","e","a">>>>, <<<<"m","o","n","a","c","o","-","e","d","i","t","o","r">>>>>>],
    [present |-> TRUE, tagName |-> <<"D","I","V">>, isContentEditable |-> TRUE,
       classChain |-> <<>>],
    [present |-> TRUE, tagName |-> <<"D","I","V">>, isContentEditable |-> FALSE,
       classChain |-> <<<<<<"v","i","e","w","-","l","i","n","e">>>>, <<<<"m","o","n","a","c","o","-","e","d","i","t","o","r">>, <<"v","s","-","d","a","r","k">>>>>>],
    [present |-> TRUE, tagName |-> <<"D","I","V">>, isContentEditable |-> FALSE,
       classChain |-> <<<<>>, <<<<"c","h","a","t","-","i","n","p","u","t","-","b","o","x">>>>>>],
    [present |-> TRUE, tagName |-> <<"P">>, isContentEditable |-> FALSE,
       classChain |-> <<<<>>, <<<<"P","r","o","s","e","M","i","r","r","o","r">>>>>>] }

ButtonLists == UNION {[1..n -> Elements] : n \in 0..MaxButtons}

Pages == [activeEl : Focuses, buttons : ButtonLists]

\* 'safety.blocklist': never written, emptied in the settings panel, or custom
Settings ==
  { Undefined,
    Stored(<<>>),
    Stored(<< <<"r","m"," ","-","r","f">> >>),
    Stored(<< <<"s","u","d","o">>, <<"M","K","F","S",".">> >>) }

\* blocklist entries: padded, blank, of the form /pattern/flags (compiling,
\* with the flag g alone, with an unterminated group, with an unknown flag)
\* and a path that has that form
ENTRY_Padded == <<" ","R","M"," ">>
ENTRY_Blank == <<" "," ">>
ENTRY_Regex == <<"/","r","m",".","-","r","f","/">>
ENTRY_RegexG == <<"/","r","m",".","-","r","f","/","g">>
ENTRY_BadSource == <<"/","s","u","d","o"," ","(","/">>
ENTRY_BadFlags == <<"/","s","u","d","o","/","x">>
ENTRY_Path == <<"/","b","i","n","/","r","m">>

\* 'safety.blocklist' as the filter may find it
FilterSettings ==
    Settings \cup
    { Stored(<< <<"r","m"," ","-","r","f"," ","/">> >>),
      Stored(<< ENTRY_Blank, ENTRY_Padded >>),
      Stored(<< ENTRY_Regex >>),
      Stored(<< ENTRY_RegexG >>),
      Stored(<< ENTRY_BadSource, <<"m","k","f","s">> >>),
      Stored(<< ENTRY_BadFlags >>),
      Stored(<< ENTRY_Path >>) }

\* the patterns added and removed
Patterns == { <<"r","m"," ","-","r","f">>, <<"r","m"," ","-","r","f"," ","/">>, <<"s","u","d","o">> }

\* the commands checked
Commands ==
    { <<"R","M"," ","-","R","F"," ","/","t","m","p">>, <<"r","m"," ","-","r","f"," ","x">>, <<"l","s"," "," ","-","l","a">>, <<"s","u","d","o"," ","r","m"," ","x">>,
      <<"n","p","m"," ","r","u","n"," ","f","o","r","m","a","t">>, <<"m","k","f","s",".","e","x","t","4"," ","/","d","e","v","/","s","d","b">>, <<"c","a","t"," ","/","s","u","d","o","/","x">>,
      <<"/","b","i","n","/","r","m"," ","a">> }

NoPage == [activeEl |-> CHOOSE f \in Focuses : ~f.present, buttons |-> <<>>]

(***************************************************************************)
(* The AutoClicker: sockets, timers, calls and start() invocations.        *)
(***************************************************************************)
Sockets  == 1..MaxStarts        \* a start() opens at most one socket
TimerIds == 1..MaxStarts        \* a start() arms at most one timer
StartIds == 1..MaxStarts

\* a guard that only asks whether a socket is held
Connected_Held(w, st) == w # NULL

\* WebSocket.OPEN: the only readyState in which sendCDP sends
Connected(w, st) == w # NULL /\ st[w] = "open"

\* const id = ++this.messageId, written as this.messageId++
issuedIdPostIncrement(m) == m

\* const id = ++this.messageId: the id is the incremented counter
issuedId(m) == m + 1

\* the catch blocks of the interval callback and of performAutoClick, were
\* they to give up polling
clearedAfterCycleError(ts, pi) == ts \ {pi}

\* the catch blocks of the interval callback and of performAutoClick only
\* log: the armed timers are what they were
timersAfterCycleError(ts, pi) == ts

\* the entry sendCDP adds for a call: its id, the socket the envelope went
\* out on (and the message listener was put on), the method, the start()
\* invocation awaiting it (0: a poll cycle), the BLOCKLIST in the expression
NewCall(m, w, method, owner, blocklist) ==
    [id |-> issuedId(m), sock |-> w, method |-> method, owner |-> owner,
     blocklist |-> blocklist, state |-> "pending", answered |-> FALSE]

\* ws.close(): a socket still connecting is aborted, an open one starts closing
closeSocket(st, w) ==
    [st EXCEPT ![w] = IF @ = "connecting" THEN "closed"
                      ELSE IF @ = "open" THEN "closing" ELSE @]

\* an entry of the list the endpoint /json answers with; webSocketDebuggerUrl
\* is the empty string when the entry has none
Target(type, url) == [type |-> type, webSocketDebuggerUrl |-> url]

\* targets.find(t => t.type === 'page' && t.webSocketDebuggerUrl): the index
\* of the first such entry, 0 when there is none
find(targets) ==
    LET suitable == {i \in DOMAIN targets :
                        /\ targets[i].type = "page"
                        /\ targets[i].webSocketDebuggerUrl # ""}
    IN  IF suitable = {} THEN 0
        ELSE CHOOSE i \in suitable : \A j \in suitable : i <= j

\* the lists the endpoint is taken to answer with
TARGETS_Page == <<Target("page", "ws://127.0.0.1:9222/devtools/page/A")>>
TARGETS_WorkerFirst ==
    <<Target("service_worker", "ws://127.0.0.1:9222/devtools/page/W"),
      Target("page", "ws://127.0.0.1:9222/devtools/page/A"),
      Target("page", "ws://127.0.0.1:9222/devtools/page/B")>>
TARGETS_AttachedFirst ==
    <<Target("page", ""), Target("page", "ws://127.0.0.1:9222/devtools/page/B")>>
TARGETS_NoPage == <<Target("service_worker", "ws://127.0.0.1:9222/devtools/page/W")>>
TARGETS_NoUrl == <<Target("page", "")>>
TargetLists == <<TARGETS_Page, TARGETS_WorkerFirst, TARGETS_AttachedFirst,
                 TARGETS_NoPage, TARGETS_NoUrl, <<>>>>

\* a start() invocation not yet made: where it is suspended, the socket its
\* connect() created, the target list it was answered (its place in
\* TargetLists, 0: none yet) and the entry of the list it took
NewStart == [pc |-> "idle", sock |-> NULL, answer |-> 0, target |-> 0]

LifeInit ==
    /\ isRunning = FALSE
    /\ ws = NULL
    /\ pollInterval = NULL
    /\ messageId = 0
    /\ sockState = [s \in Sockets |-> "none"]
    /\ timers = {}
    /\ calls = <<>>
    /\ starts = [p \in StartIds |-> NewStart]
    /\ stopped = FALSE
    /\ event = "init"

\* start(): returns at once when already running; otherwise sets isRunning
\* and suspends in connect() on the fetch of the target list
startCalled(p) ==
    /\ starts[p].pc = "idle"
    /\ \A q \in StartIds : q < p => starts[q].pc # "idle"
    /\ IF isRunning
       THEN /\ starts' = [starts EXCEPT ![p].pc = "returned"]
            /\ event' = "start_noop"
            /\ UNCHANGED <<isRunning, stopped>>
       ELSE /\ isRunning' = TRUE
            /\ starts' = [starts EXCEPT ![p].pc = "fetch"]
            /\ stopped' = FALSE
            /\ event' = "start"
    /\ UNCHANGED <<ws, pollInterval, messageId, sockState, timers, calls>>

\* start() called by the activation of the extension (logger.ts:261-263)
start(p) ==
    /\ startCalled(p)
    /\ UNCHANGED pageVars
    /\ UNCHANGED <<hunterVars, quotaVars, safetyVars>>

\* connect(): the answer to the fetch of /json is the list TargetLists[a].
\* find gives the entry whose socket URL is used; without one connect()
\* throws 'No suitable CDP target found' and start() catches: isRunning =
\* false.  With one, this.ws = new WebSocket(url)
connectWith(p, a) ==
    /\ starts[p].pc = "fetch"
    /\ IF find(TargetLists[a]) = 0
       THEN /\ isRunning' = FALSE
            /\ starts' = [starts EXCEPT ![p].pc = "failed", ![p].answer = a]
            /\ event' = "start_failed"
            /\ UNCHANGED <<ws, sockState>>
       ELSE /\ \E s \in Sockets :
                /\ sockState[s] = "none"
                /\ \A r \in Sockets : r < s => sockState[r] # "none"
                /\ sockState' = [sockState EXCEPT ![s] = "connecting"]
                /\ ws' = s
                /\ starts' = [starts EXCEPT ![p] = [pc |-> "open", sock |-> s,
                                                    answer |-> a,
                                                    target |-> find(TargetLists[a])]]
            /\ event' = "socket_created"
            /\ UNCHANGED isRunning
    /\ UNCHANGED <<pollInterval, messageId, timers, calls, stopped>>
    /\ UNCHANGED pageVars
    /\ UNCHANGED <<hunterVars, quotaVars, safetyVars>>

\* connect(): the target list arrived with a page target; this.ws = new WebSocket
fetchTargets(p) == connectWith(p, 1)

\* connect(): the fetch failed or its body is not JSON; start() catches:
\* isRunning = false
fetchFails(p) ==
    /\ starts[p].pc = "fetch"
    /\ isRunning' = FALSE
    /\ starts' = [starts EXCEPT ![p].pc = "failed"]
    /\ event' = "start_failed"
    /\ UNCHANGED <<ws, pollInterval, messageId, sockState, timers, calls, stopped>>
    /\ UNCHANGED pageVars
    /\ UNCHANGED <<hunterVars, quotaVars, safetyVars>>

\* the socket's 'open' event resolves the wait in connect(), which goes on to
\* sendCDP('Runtime.enable') on whatever this.ws is by now
socketOpens(p) ==
    /\ starts[p].pc = "open"
    /\ sockState[starts[p].sock] = "connecting"
    /\ LET st == [sockState EXCEPT ![starts[p].sock] = "open"]
       IN  /\ sockState' = st
           /\ IF Connected(ws, st)
              THEN /\ Len(calls) < MaxCalls
                   /\ messageId' = messageId + 1
                   /\ calls' = Append(calls, NewCall(messageId, ws, "Runtime.enable", p, <<>>))
                   /\ starts' = [starts EXCEPT ![p].pc = "handshake"]
                   /\ event' = "handshake_sent"
                   /\ UNCHANGED isRunning
              ELSE /\ isRunning' = FALSE
                   /\ starts' = [starts EXCEPT ![p].pc = "failed"]
                   /\ event' = "start_failed"
                   /\ UNCHANGED <<messageId, calls>>
    /\ UNCHANGED <<ws, pollInterval, timers, stopped>>
    /\ UNCHANGED pageVars
    /\ UNCHANGED <<hunterVars, quotaVars, safetyVars>>

\* the socket's 'error' event while connect() waits for 'open' (refused, or
\* closed by stop() before it was established): start() catches
socketErrors(p) ==
    /\ starts[p].pc = "open"
    /\ sockState[starts[p].sock] \in {"connecting", "closed"}
    /\ sockState' = [sockState EXCEPT ![starts[p].sock] = "closed"]
    /\ isRunning' = FALSE
    /\ starts' = [starts EXCEPT ![p].pc = "failed"]
    /\ event' = "start_failed"
    /\ UNCHANGED <<ws, pollInterval, messageId, timers, calls, stopped>>
    /\ UNCHANGED pageVars
    /\ UNCHANGED <<hunterVars, quotaVars, safetyVars>>

\* stop(): isRunning = false; stopPolling(); disconnect()
stopCalled ==
    /\ isRunning' = FALSE
    /\ timers' = timers \ {pollInterval}
    /\ pollInterval' = NULL
    /\ sockState' = IF ws # NULL THEN closeSocket(sockState, ws) ELSE sockState
    /\ ws' = NULL
    /\ stopped' = TRUE
    /\ event' = "stop"
    /\ UNCHANGED <<messageId, calls, starts>>

\* stop() called by deactivate() (logger.ts:282-289)
stop ==
    /\ stopCalled
    /\ UNCHANGED pageVars
    /\ UNCHANGED <<hunterVars, quotaVars, safetyVars>>

\* the interval callback: nothing when not running; else performAutoClick,
\* whose sendCDP throws when the socket is absent or not open (caught)
pollTick(t) ==
    /\ t \in timers
    /\ IF ~isRunning
       THEN /\ event' = "tick_idle"
            /\ UNCHANGED <<messageId, calls, timers>>
       ELSE IF Connected(ws, sockState)
       THEN /\ Len(calls) < MaxCalls
            /\ messageId' = messageId + 1
            /\ calls' = Append(calls, NewCall(messageId, ws, "Runtime.evaluate", 0,
                                              scriptBlocklist(cfg)))
            /\ event' = "cycle_sent"
            /\ UNCHANGED timers
       ELSE /\ timers' = timersAfterCycleError(timers, pollInterval)
            /\ event' = "cycle_failed"
            /\ UNCHANGED <<messageId, calls>>
    /\ UNCHANGED <<isRunning, ws, pollInterval, sockState, starts, stopped>>
    /\ UNCHANGED pageVars
    /\ UNCHANGED <<hunterVars, quotaVars, safetyVars>>

\* startPolling(): arms a timer unless this.pollInterval holds one
startPolling(pi, ts) ==
    IF pi # NULL THEN [pollInterval |-> pi, timers |-> ts]
    ELSE LET t == CHOOSE x \in TimerIds \ ts : \A y \in TimerIds \ ts : x <= y
         IN  [pollInterval |-> t, timers |-> ts \cup {t}]

\* A message carrying the id of call i arrives on the socket the call was
\* sent on; err: the message has an error member.  The call's listener does
\* this.ws.off(...) first, which throws when stop() has set this.ws to null:
\* the promise is then left unsettled.  Otherwise the promise settles and the
\* awaiting code runs on: connect() returns into start(), which starts
\* polling (or catches), or performAutoClick logs (or swallows).
messageArrives(i, err) ==
    /\ i \in DOMAIN calls
    /\ calls[i].state = "pending"
    /\ ~calls[i].answered
    /\ sockState[calls[i].sock] \in {"open", "closing"}
    /\ IF ws = NULL
       THEN /\ calls' = [calls EXCEPT ![i].answered = TRUE]
            /\ event' = "handler_threw"
            /\ UNCHANGED <<isRunning, pollInterval, timers, starts>>
       ELSE /\ calls' = [calls EXCEPT ![i].answered = TRUE,
                                      ![i].state = IF err THEN "rejected" ELSE "resolved"]
            /\ IF calls[i].owner # 0
               THEN IF err
                    THEN /\ isRunning' = FALSE
                         /\ starts' = [starts EXCEPT ![calls[i].owner].pc = "failed"]
                         /\ event' = "start_failed"
                         /\ UNCHANGED <<pollInterval, timers>>
                    ELSE /\ pollInterval' = startPolling(pollInterval, timers).pollInterval
                         /\ timers' = startPolling(pollInterval, timers).timers
                         /\ starts' = [starts EXCEPT ![calls[i].owner].pc = "done"]
                         /\ event' = "polling_started"
                         /\ UNCHANGED isRunning
               ELSE IF err
                    THEN /\ timers' = timersAfterCycleError(timers, pollInterval)
                         /\ event' = "cycle_failed"
                         /\ UNCHANGED <<isRunning, pollInterval, starts>>
                    ELSE /\ event' = "cycle_done"
                         /\ UNCHANGED <<isRunning, pollInterval, timers, starts>>
    /\ UNCHANGED <<ws, messageId, sockState, stopped>>
    /\ UNCHANGED pageVars
    /\ UNCHANGED <<hunterVars, quotaVars, safetyVars>>

\* a listener without the id test: it takes every message of its socket
handlerTakesAny(responseId, id) == TRUE

\* the test in sendCDP's listener: if (response.id === id)
handlerMatches(responseId, id) == responseId = id

\* A message arrives on socket s whose id m is that of no call pending on s
\* (an event notification, which has no id: 0; the id of a call sent on
\* another socket; the id of a call already settled).  Every listener still
\* registered on s runs: JSON.parse, then the id test; a listener that
\* passes the test settles its promise, the others return.
unmatchedMessage(s, m) ==
    /\ sockState[s] \in {"open", "closing"}
    /\ \E j \in DOMAIN calls : calls[j].sock = s /\ calls[j].state = "pending"
    /\ \A j \in DOMAIN calls :
           (calls[j].sock = s /\ calls[j].state = "pending") => calls[j].id # m
    /\ calls' = [j \in DOMAIN calls |->
                    IF /\ calls[j].sock = s
                       /\ calls[j].state = "pending"
                       /\ handlerMatches(m, calls[j].id)
                    THEN [calls[j] EXCEPT !.state = "resolved"]
                    ELSE calls[j]]
    /\ event' = "message_discarded"
    /\ UNCHANGED <<isRunning, ws, pollInterval, messageId, sockState, timers,
                   starts, stopped>>
    /\ UNCHANGED pageVars
    /\ UNCHANGED <<hunterVars, quotaVars, safetyVars>>

\* the transport of socket s ends (the remote side closes it, the connection
\* breaks, or the closing handshake completes); the code listens for neither
\* 'close' nor, after connect(), 'error'
socketCloses(s) ==
    /\ sockState[s] \in {"open", "closing"}
    /\ sockState' = [sockState EXCEPT ![s] = "closed"]
    /\ event' = "socket_closed"
    /\ UNCHANGED <<isRunning, ws, pollInterval, messageId, timers, calls, starts, stopped>>
    /\ UNCHANGED pageVars
    /\ UNCHANGED <<hunterVars, quotaVars, safetyVars>>

(***************************************************************************)
(* The settings while the loop runs, and the remote page.                  *)
(***************************************************************************)
\* ConfigService.toggle: the negation of what this.config holds
toggled(current) == ~current

\* the command 'freehand.toggle': configService.toggle('autoAccept.enabled')
\* computes the new value from this.config and calls set() without
\* awaiting it; then the status bar is updated and the new value is logged
\* and shown.  The AutoClicker is not called.
toggleCommand ==
    /\ Len(autoAccept.writes) < MaxWrites
    /\ autoAccept' = [autoAccept EXCEPT !.writes = Append(@, toggled(autoAccept.value))]
    /\ event' = "toggled"
    /\ UNCHANGED <<isRunning, ws, pollInterval, messageId, sockState, timers,
                   calls, starts, stopped>>
    /\ UNCHANGED pageVars
    /\ UNCHANGED <<hunterVars, quotaVars, remote, filter, host>>

\* onDidChangeConfiguration after an update of 'autoAccept.enabled' went
\* through: this.config is read anew
settingWritten ==
    /\ autoAccept.writes # <<>>
    /\ autoAccept' = [value |-> Head(autoAccept.writes),
                      writes |-> Tail(autoAccept.writes),
                      since |-> messageId]
    /\ event' = "setting_written"
    /\ UNCHANGED <<isRunning, ws, pollInterval, messageId, sockState, timers,
                   calls, starts, stopped>>
    /\ UNCHANGED pageVars
    /\ UNCHANGED <<hunterVars, quotaVars, remote, filter, host>>

\* onDidChangeConfiguration after 'safety.blocklist' was saved in the
\* settings panel or edited in the settings file: this.config is read anew
blocklistChanged(v) ==
    /\ v # cfg
    /\ cfg' = v
    /\ event' = "blocklist_changed"
    /\ UNCHANGED <<page, scriptOut>>
    /\ UNCHANGED <<isRunning, ws, pollInterval, messageId, sockState, timers,
                   calls, starts, stopped>>
    /\ UNCHANGED <<hunterVars, quotaVars, safetyVars>>

listsEvaluated_Live(call, c) == scriptBlocklist(c)

\* the BLOCKLIST the routine of a call works with: the literal that
\* generateClickScript put into the expression the call carries
listsEvaluated(call, c) == call.blocklist

\* the remote page evaluates the expression of the Runtime.evaluate call i
\* it was sent, before it answers
remoteEvaluates(i) ==
    /\ i \in DOMAIN calls
    /\ calls[i].method = "Runtime.evaluate"
    /\ calls[i].state = "pending"
    /\ ~calls[i].answered
    /\ i \notin remote
    /\ scriptOut' = clickScript(page, listsEvaluated(calls[i], cfg))
    /\ remote' = remote \cup {i}
    /\ event' = "evaluated"
    /\ UNCHANGED <<cfg, page, autoAccept, filter, host>>
    /\ UNCHANGED <<isRunning, ws, pollInterval, messageId, sockState, timers,
                   calls, starts, stopped>>
    /\ UNCHANGED <<hunterVars, quotaVars>>

rejectedOnParseError(call) == [call EXCEPT !.state = "rejected"]

\* a listener whose JSON.parse throws: the exception leaves the listener
\* before the id test, and the promise of its call is not touched
afterParseError(call) == call

\* A message arrives on socket s that JSON.parse does not accept.  The
\* listeners registered on s are those of the calls sent on s whose promise
\* is not settled; each that runs throws in JSON.parse.
malformedMessage(s) ==
    /\ sockState[s] \in {"open", "closing"}
    /\ calls' = [j \in DOMAIN calls |->
                    IF calls[j].sock = s /\ calls[j].state = "pending"
                    THEN afterParseError(calls[j])
                    ELSE calls[j]]
    /\ event' = "message_malformed"
    /\ UNCHANGED <<isRunning, ws, pollInterval, messageId, sockState, timers,
                   starts, stopped>>
    /\ UNCHANGED pageVars
    /\ UNCHANGED <<hunterVars, quotaVars, safetyVars>>

(***************************************************************************)
(* The commands of the extension host (src/src/shared/logger.ts) and the  *)
(* status bar (src/src/view/status-bar.ts).                                *)
(***************************************************************************)
\* ConfigService.getAll(): the three settings the commands read from
\* this.config
getAll(aa, h) ==
    [autoAccept |-> aa.value, autoRun |-> h.autoRun, multiTab |-> h.multiTab]

\* const isEnabled = cfg.autoAccept.enabled || cfg.autoRun.enabled
isEnabled(c) == c.autoAccept \/ c.autoRun

\* const isMultiTab = cfg.multiTab.enabled
isMultiTab(c) == c.multiTab

\* StatusBarController.update(): returns at once while the state is
\* 'loading'; otherwise the state follows the settings
update(bar, c) ==
    IF bar.state = "loading" THEN bar
    ELSE IF ~isEnabled(c) THEN [bar EXCEPT !.state = "off"]
    ELSE IF isMultiTab(c) THEN [bar EXCEPT !.state = "multi"]
    ELSE [bar EXCEPT !.state = "on"]

\* StatusBarController.setLoading()
setLoading(bar) == [bar EXCEPT !.state = "loading"]

\* StatusBarController.updateQuota(percent)
updateQuota(bar, percent) == [bar EXCEPT !.quotaPercent = percent]

\* the status bar after construction (state 'off', quotaPercent 100) and
\* the statusBar.update() that ends activate()
NewStatusBar(c) == update([state |-> "off", quotaPercent |-> 100], c)

\* a command with two branches, which switches off whatever is enabled
branch_OnOff(c) == IF ~isEnabled(c) THEN "enable" ELSE "disable"

\* the branch 'freehand.cycleState' takes: OFF -> ON, ON -> Multi, or
\* Multi -> OFF
branch(c) ==
    IF ~isEnabled(c) THEN "enable"
    ELSE IF ~isMultiTab(c) THEN "multi"
    ELSE "disable"

\* the configService.set calls a branch awaits, in order
Write(key, value) == [key |-> key, value |-> value]

sets(b) ==
    IF b = "enable"
    THEN << Write("autoAccept.enabled", TRUE), Write("autoRun.enabled", TRUE),
            Write("multiTab.enabled", FALSE) >>
    ELSE IF b = "multi"
    THEN << Write("multiTab.enabled", TRUE) >>
    ELSE << Write("autoAccept.enabled", FALSE), Write("autoRun.enabled", FALSE),
            Write("multiTab.enabled", FALSE) >>

\* this.config once the update w went through
written(c, w) ==
    IF w.key = "autoAccept.enabled" THEN [c EXCEPT !.autoAccept = w.value]
    ELSE IF w.key = "autoRun.enabled" THEN [c EXCEPT !.autoRun = w.value]
    ELSE [c EXCEPT !.multiTab = w.value]

\* an invocation of 'freehand.cycleState' that found the settings c: it is
\* suspended in its first configService.set
NewCycle(c, alone) ==
    [pc |-> "set", branch |-> branch(c), step |-> 1, from |-> c, to |-> c,
     alone |-> alone, called |-> "none", start |-> 0]

\* the extension host after activation with the settings autoRun and
\* multiTab: no command was invoked yet
NewHost(aa, autoRun, multiTab) ==
    [autoRun |-> autoRun, multiTab |-> multiTab,
     statusBar |-> NewStatusBar([autoAccept |-> aa, autoRun |-> autoRun,
                                 multiTab |-> multiTab]),
     commands |-> <<>>, refreshing |-> 0, refreshed |-> 0]

\* the command invocations of a run so far
Invoked(h) == Len(h.commands) + h.refreshing + h.refreshed

\* some invocation of cycleState has not returned
Cycling(h) == \E k \in DOMAIN h.commands : h.commands[k].pc # "done"

\* the host once the update w went through: this.config is read anew and
\* the listener of the status bar runs
hostWritten(h, c) ==
    [h EXCEPT !.autoRun = c.autoRun, !.multiTab = c.multiTab,
              !.statusBar = update(@, c)]

settingWritten_To(aa, c) ==
    [aa EXCEPT !.value = c.autoAccept,
               !.since = IF c.autoAccept # aa.value THEN messageId ELSE @]

\* the command 'freehand.cycleState' is invoked: it reads the settings,
\* chooses its branch and suspends in the first configService.set
cycleState ==
    /\ Invoked(host) < MaxCommands
    /\ host' = [host EXCEPT !.commands =
                   Append([k \in DOMAIN @ |->
                              IF @[k].pc # "done"
                              THEN [@[k] EXCEPT !.alone = FALSE] ELSE @[k]],
                          NewCycle(getAll(autoAccept, host), ~Cycling(host)))]
    /\ event' = "cycle_state"
    /\ UNCHANGED <<isRunning, ws, pollInterval, messageId, sockState, timers,
                   calls, starts, stopped>>
    /\ UNCHANGED pageVars
    /\ UNCHANGED <<hunterVars, quotaVars, autoAccept, remote, filter>>

\* the configService.set that invocation k awaits went through and is not
\* followed by a call of the AutoClicker: the invocation goes on to its
\* next set, or (ON -> Multi) updates the status bar and returns
cycleWritten(k) ==
    /\ k \in DOMAIN host.commands
    /\ host.commands[k].pc = "set"
    /\ LET inv == host.commands[k]
           c == written(getAll(autoAccept, host), sets(inv.branch)[inv.step])
           last == inv.step = Len(sets(inv.branch))
       IN  /\ last => inv.branch = "multi"
           /\ autoAccept' = settingWritten_To(autoAccept, c)
           /\ host' = [hostWritten(host, c) EXCEPT !.commands[k] =
                          IF last
                          THEN [inv EXCEPT !.pc = "done", !.to = c]
                          ELSE [inv EXCEPT !.step = @ + 1]]
    /\ event' = "cycle_written"
    /\ UNCHANGED <<isRunning, ws, pollInterval, messageId, sockState, timers,
                   calls, starts, stopped>>
    /\ UNCHANGED pageVars
    /\ UNCHANGED <<hunterVars, quotaVars, remote, filter>>

\* the last set of the branch OFF -> ON went through: the invocation calls
\* autoClicker.start() and awaits it
cycleStarts(k, p) ==
    /\ k \in DOMAIN host.commands
    /\ host.commands[k].pc = "set"
    /\ LET inv == host.commands[k]
           c == written(getAll(autoAccept, host), sets(inv.branch)[inv.step])
       IN  /\ inv.branch = "enable"
           /\ inv.step = Len(sets(inv.branch))
           /\ autoAccept' = settingWritten_To(autoAccept, c)
           /\ host' = [hostWritten(host, c) EXCEPT !.commands[k] =
                          [inv EXCEPT !.pc = "starting", !.called = "start",
                                      !.start = p]]
    /\ startCalled(p)
    /\ UNCHANGED pageVars
    /\ UNCHANGED <<hunterVars, quotaVars, remote, filter>>

\* the start() that invocation k awaits has settled: statusBar.update()
cycleReturns(k) ==
    /\ k \in DOMAIN host.commands
    /\ host.commands[k].pc = "starting"
    /\ starts[host.commands[k].start].pc \in {"returned", "failed", "done"}
    /\ host' = [host EXCEPT
                   !.statusBar = update(@, getAll(autoAccept, host)),
                   !.commands[k].pc = "done",
                   !.commands[k].to = getAll(autoAccept, host)]
    /\ event' = "cycle_returns"
    /\ UNCHANGED <<isRunning, ws, pollInterval, messageId, sockState, timers,
                   calls, starts, stopped>>
    /\ UNCHANGED pageVars
    /\ UNCHANGED <<hunterVars, quotaVars, autoAccept, remote, filter>>

\* the last set of the branch Multi -> OFF went through: autoClicker.stop(),
\* statusBar.update(), and the invocation returns
cycleStops(k) ==
    /\ k \in DOMAIN host.commands
    /\ host.commands[k].pc = "set"
    /\ LET inv == host.commands[k]
           c == written(getAll(autoAccept, host), sets(inv.branch)[inv.step])
       IN  /\ inv.branch = "disable"
           /\ inv.step = Len(sets(inv.branch))
           /\ autoAccept' = settingWritten_To(autoAccept, c)
           /\ host' = [hostWritten(host, c) EXCEPT !.commands[k] =
                          [inv EXCEPT !.pc = "done", !.called = "stop",
                                      !.to = c]]
    /\ stopCalled
    /\ UNCHANGED pageVars
    /\ UNCHANGED <<hunterVars, quotaVars, remote, filter>>

\* the command 'freehand.refreshQuota' is invoked: statusBar.setLoading(),
\* then it awaits quotaService.refresh()
refreshQuota ==
    /\ Invoked(host) < MaxCommands
    /\ host' = [host EXCEPT !.statusBar = setLoading(@), !.refreshing = @ + 1]
    /\ event' = "refresh_quota"
    /\ UNCHANGED <<isRunning, ws, pollInterval, messageId, sockState, timers,
                   calls, starts, stopped>>
    /\ UNCHANGED pageVars
    /\ UNCHANGED <<hunterVars, quotaVars, autoAccept, remote, filter>>

\* the refresh() a refreshQuota invocation awaits has returned a summary
\* with this percentage (0 with status 'unknown' when it failed; refresh()
\* never rejects): statusBar.updateQuota(quota.percentage);
\* statusBar.update()
refreshQuotaReturns(percentage) ==
    /\ host.refreshing > 0
    /\ host' = [host EXCEPT
                   !.statusBar = update(updateQuota(@, percentage),
                                        getAll(autoAccept, host)),
                   !.refreshing = @ - 1, !.refreshed = @ + 1]
    /\ event' = "quota_refreshed"
    /\ UNCHANGED <<isRunning, ws, pollInterval, messageId, sockState, timers,
                   calls, starts, stopped>>
    /\ UNCHANGED pageVars
    /\ UNCHANGED <<hunterVars, quotaVars, autoAccept, remote, filter>>

\* a fresh installation: the setting was never written
Init ==
    /\ LifeInit
    /\ cfg = Undefined
    /\ page = NoPage
    /\ scriptOut = NotRun
    /\ HunterIdle
    /\ QuotaIdle
    /\ SafetyIdle

Next ==
    \/ \E p \in StartIds : start(p)
    \/ \E p \in StartIds : fetchTargets(p)
    \/ \E p \in StartIds : fetchFails(p)
    \/ \E p \in StartIds : socketOpens(p)
    \/ \E p \in StartIds : socketErrors(p)
    \/ stop
    \/ \E t \in TimerIds : pollTick(t)
    \/ \E i \in 1..MaxCalls, err \in BOOLEAN : messageArrives(i, err)
    \/ \E s \in Sockets : socketCloses(s)

Spec == Init /\ [][Next]_vars

\* the same program with the target lists the endpoint may answer with
ConnectNext ==
    \/ \E p \in StartIds : start(p)
    \/ \E p \in StartIds, a \in DOMAIN TargetLists : connectWith(p, a)
    \/ \E p \in StartIds : fetchFails(p)
    \/ \E p \in StartIds : socketOpens(p)
    \/ \E p \in StartIds : socketErrors(p)
    \/ stop
    \/ \E t \in TimerIds : pollTick(t)
    \/ \E i \in 1..MaxCalls, err \in BOOLEAN : messageArrives(i, err)
    \/ \E s \in Sockets : socketCloses(s)

ConnectSpec == Init /\ [][ConnectNext]_vars

\* the id an unmatched message carries: none (an event notification; no call
\* is ever given 0).  A late or repeated answer carries an id that no
\* listener of its socket waits for, and every listener treats it alike.
MessageIds == {0}

\* the same program with the messages the remote side sends unasked
MessageNext ==
    \/ Next
    \/ \E s \in Sockets, m \in MessageIds : unmatchedMessage(s, m)

MessageSpec == Init /\ [][MessageNext]_vars

\* setInterval keeps firing the callback of an armed timer; nothing obliges
\* the remote side to answer or the transport to stay up
FairSpec == Spec /\ WF_vars(\E t \in TimerIds : pollTick(t))

(***************************************************************************)
(* The decision routine on its own: one evaluation, in any document of     *)
(* Pages, of the routine generateClickScript builds under any setting.     *)
(***************************************************************************)
ScriptInit ==
    /\ LifeInit
    /\ cfg \in Settings
    /\ page \in Pages
    /\ scriptOut = NotRun
    /\ HunterIdle
    /\ QuotaIdle
    /\ SafetyIdle

evaluateScript ==
    /\ ~scriptOut.ran
    /\ scriptOut' = clickScript(page, scriptBlocklist(cfg))
    /\ UNCHANGED <<cfg, page>>
    /\ UNCHANGED lifeVars
    /\ UNCHANGED <<hunterVars, quotaVars, safetyVars>>

ScriptNext == evaluateScript

ScriptSpec == ScriptInit /\ [][ScriptNext]_vars

(***************************************************************************)
(* One scanEnvironment(maxAttempts) call, on either platform, in any       *)
(* environment of Worlds.                                                  *)
(***************************************************************************)
HunterInit ==
    /\ LifeInit
    /\ cfg = Undefined
    /\ page = NoPage
    /\ scriptOut = NotRun
    /\ QuotaIdle
    /\ SafetyIdle
    /\ platform \in Platforms
    /\ world \in Worlds
    /\ scan = NewScan(Len(world))

HunterNext ==
    \/ scanEnvironment
    \/ findProcesses
    \/ identifyPorts
    \/ pingPort
    \/ backoff

HunterSpec == HunterInit /\ [][HunterNext]_vars

(***************************************************************************)
(* QuotaService: refresh() invocations, which may overlap (the interval    *)
(* does not wait for the previous one).                                    *)
(***************************************************************************)
QuotaInit ==
    /\ LifeInit
    /\ cfg = Undefined
    /\ page = NoPage
    /\ scriptOut = NotRun
    /\ HunterIdle
    /\ quota = NewQuota
    /\ service = NoService
    /\ SafetyIdle

QuotaNext ==
    \/ \E p \in RefreshIds : refresh(p)
    \/ \E p \in RefreshIds, d \in Descriptors \cup {NoResult} : scanReturns(p, d)
    \/ \E p \in RefreshIds, error \in BOOLEAN : fetchEnds(p, error)

QuotaSpec == QuotaInit /\ [][QuotaNext]_vars

\* the remaining fractions an answer is taken to carry, in thousandths
Fractions == {-50, 0, 100, 104, 105, 300, 304, 1000, 1200}

\* the entries of clientModelConfigs
ConfigEntries ==
    {QuotaInfoOf(Fraction(f)) : f \in Fractions} \cup {QuotaInfoOf(NoFraction), NoQuotaInfo}

\* the lists of at most MaxModels entries
ConfigLists == UNION {[1..n -> ConfigEntries] : n \in 0..MaxModels}

\* the answers: with or without userStatus
Responses == {Response(TRUE, configs) : configs \in ConfigLists} \cup {Response(FALSE, <<>>)}

\* the setting 'quota.warningThreshold': never written, or a percentage
Thresholds == {[defined |-> FALSE, value |-> 0]} \cup
              {[defined |-> TRUE, value |-> v] : v \in {5, 30}}

\* a refresh whose request has just been answered
SummaryInit ==
    /\ LifeInit
    /\ cfg = Undefined
    /\ page = NoPage
    /\ scriptOut = NotRun
    /\ HunterIdle
    /\ quota = NoQuota
    /\ \E response \in Responses, threshold \in Thresholds :
           service = NewService(response, threshold)
    /\ SafetyIdle

SummaryNext == summarize

SummarySpec == SummaryInit /\ [][SummaryNext]_vars

\* the extension before activate() starts the monitoring
MonitorInit ==
    /\ LifeInit
    /\ cfg = Undefined
    /\ page = NoPage
    /\ scriptOut = NotRun
    /\ HunterIdle
    /\ quota = NoQuota
    /\ service = NewMonitor
    /\ SafetyIdle

MonitorNext ==
    \/ monitoringStarts
    \/ monitoringStops
    \/ configChanges
    \/ \E t \in 1..(MaxMonitorings + 2 ^ MaxChanges) : monitorTick(t)

MonitorSpec == MonitorInit /\ [][MonitorNext]_vars

(***************************************************************************)
(* The running loop.  start() invocations whose connection is set up (no   *)
(* stop() follows, no connection is refused), the ticks, the answers and   *)
(* the remote page evaluating what it is sent; with that, in CycleSpec,    *)
(* changes of the blocklist and malformed messages, and in ToggleSpec the  *)
(* toggle command.                                                         *)
(***************************************************************************)
\* the document the remote side shows: a button that runs the command
\* 'rm -rf /' previewed next to it
CyclePages ==
    { [activeEl |-> NoPage.activeEl, buttons |-> <<el>>] :
        el \in {e \in Elements : e.pre.textContent = <<"r","m"," ","-","r","f"," ","/">>} }

\* the blocklists the setting changes between
CycleSettings == {Undefined, Stored(<< <<"r","m"," ","-","r","f">> >>)}

CycleInit ==
    /\ LifeInit
    /\ cfg \in CycleSettings
    /\ page \in CyclePages
    /\ scriptOut = NotRun
    /\ HunterIdle
    /\ QuotaIdle
    /\ SafetyIdle

LoopNext ==
    \/ \E p \in StartIds : start(p)
    \/ \E p \in StartIds : fetchTargets(p)
    \/ \E p \in StartIds : socketOpens(p)
    \/ \E t \in TimerIds : pollTick(t)
    \/ \E i \in 1..MaxCalls, err \in BOOLEAN : messageArrives(i, err)
    \/ \E s \in Sockets : socketCloses(s)
    \/ \E i \in 1..MaxCalls : remoteEvaluates(i)

CycleNext ==
    \/ LoopNext
    \/ \E v \in CycleSettings : blocklistChanged(v)
    \/ \E s \in Sockets : malformedMessage(s)

CycleSpec == CycleInit /\ [][CycleNext]_vars

ToggleNext ==
    \/ LoopNext
    \/ toggleCommand
    \/ settingWritten

\* the document the remote side shows: a plain prompt to accept
TogglePages ==
    { [activeEl |-> NoPage.activeEl, buttons |-> <<el>>] :
        el \in {e \in Elements : e.textContent = <<"A","c","c","e","p","t">>} }

ToggleInit ==
    /\ LifeInit
    /\ cfg = Undefined
    /\ page \in TogglePages
    /\ scriptOut = NotRun
    /\ HunterIdle
    /\ QuotaIdle
    /\ SafetyIdle

ToggleSpec == ToggleInit /\ [][ToggleNext]_vars

\* the commands of the status bar: the extension was activated with any
\* stored values of the three settings; the AutoClicker is not running
\* (the start() of the activation was not called or did not connect)
CommandInit ==
    /\ LifeInit
    /\ cfg = Undefined
    /\ page = NoPage
    /\ scriptOut = NotRun
    /\ HunterIdle
    /\ QuotaIdle
    /\ remote = {}
    /\ filter = <<>>
    /\ \E aa \in BOOLEAN, ar \in BOOLEAN, mt \in BOOLEAN :
          /\ autoAccept = [value |-> aa, writes |-> <<>>, since |-> 0]
          /\ host = NewHost(aa, ar, mt)

\* the invocations of the command and the two ways the fetch of the target
\* list ends for the start() they await
CommandNext ==
    \/ cycleState
    \/ \E k \in 1..MaxCommands : cycleWritten(k)
    \/ \E k \in 1..MaxCommands, p \in StartIds : cycleStarts(k, p)
    \/ \E k \in 1..MaxCommands : cycleReturns(k)
    \/ \E k \in 1..MaxCommands : cycleStops(k)
    \/ \E p \in StartIds : fetchTargets(p)
    \/ \E p \in StartIds : fetchFails(p)

CommandSpec == CommandInit /\ [][CommandNext]_vars

\* the percentages a refresh() returns
Percentages == {0, 50, 100}

StatusNext ==
    \/ CommandNext
    \/ refreshQuota
    \/ \E percentage \in Percentages : refreshQuotaReturns(percentage)

StatusSpec == CommandInit /\ [][StatusNext]_vars

(***************************************************************************)
(* The SafetyFilter: any calls of its methods, one after the other, from   *)
(* any stored blocklist of FilterSettings.                                 *)
(***************************************************************************)
FilterInit ==
    /\ LifeInit
    /\ cfg \in FilterSettings
    /\ page = NoPage
    /\ scriptOut = NotRun
    /\ HunterIdle
    /\ QuotaIdle
    /\ SafetyIdle

FilterNext ==
    \/ getBlocklistCall
    \/ \E command \in Commands : isBlockedCall(command)
    \/ \E pattern \in Patterns : addToBlocklist(pattern)
    \/ \E pattern \in Patterns : removeFromBlocklist(pattern)
    \/ resetBlocklist

FilterSpec == FilterInit /\ [][FilterNext]_vars

(***************************************************************************)
(* Properties of the decision routine (checked under ScriptSpec).          *)
(***************************************************************************)
Range(q) == {q[k] : k \in DOMAIN q}

\* the elements of the page the evaluated routine called click() on
Clicked == Range(scriptOut.clicks)

NormalizedText(el) == toLowerCase(trim(el.textContent))

\* the button text suggests command execution
SuggestsExecution(el) ==
    \/ includes(NormalizedText(el), <<"r","u","n">>)
    \/ includes(NormalizedText(el), <<"e","x","e","c","u","t","e">>)

\* the text matches the blocklist the SafetyFilter reports as the active one
OnActiveBlocklist(text) ==
    \E k \in DOMAIN getBlocklist(cfg) :
        includes(toLowerCase(text), toLowerCase(getBlocklist(cfg)[k]))

\* C1: a button whose text suggests command execution and whose adjacent
\* command preview matches the active blocklist (the built-in default one
\* when no user blocklist is configured) is never clicked.
C1_BlockedCommandNeverClicked ==
    scriptOut.ran =>
        \A i \in DOMAIN page.buttons :
            ( /\ SuggestsExecution(page.buttons[i])
              /\ page.buttons[i].pre.present
              /\ OnActiveBlocklist(page.buttons[i].pre.textContent) )
            => i \notin Clicked

\* the safety gate stopped element i in the evaluated cycle
GateBlocked(i) ==
    /\ scriptOut.skipped # "user typing"
    /\ isAcceptButton(page.buttons[i])
    /\ safetyGateBlocks(page.buttons[i], scriptBlocklist(cfg))

\* C2: when the safety gate blocks an element, only that element is skipped:
\* every other element of the cycle that passes all gates is clicked (and
\* nothing else is), each once, and the returned count is the number of
\* elements clicked.
C2_OnlyBlockedElementSkipped ==
    (scriptOut.ran /\ \E j \in DOMAIN page.buttons : GateBlocked(j)) =>
        /\ \A i \in DOMAIN page.buttons :
               (isAcceptButton(page.buttons[i]) /\ ~GateBlocked(i)) <=> i \in Clicked
        /\ Len(scriptOut.clicks) = Cardinality(Clicked)
        /\ scriptOut.clicked = Cardinality(Clicked)

\* C2 witness: the gate blocked an element and a later element was clicked
C2_Witness ==
    /\ scriptOut.ran
    /\ \E j, i \in DOMAIN page.buttons : j < i /\ GateBlocked(j) /\ i \in Clicked
    /\ scriptOut.clicked = 1

\* the focused element is an input or textarea, is content-editable, or lies
\* inside an editor or chat-input widget
FocusIsTyping ==
    LET a == page.activeEl
    IN  /\ a.present
        /\ \/ toLowerCase(a.tagName) \in {<<"i","n","p","u","t">>, <<"t","e","x","t","a","r","e","a">>}
           \/ a.isContentEditable
           \/ \E k \in DOMAIN a.classChain : \E t \in DOMAIN a.classChain[k] :
                 \/ a.classChain[k][t] = <<"m","o","n","a","c","o","-","e","d","i","t","o","r">>
                 \/ a.classChain[k][t] = <<"P","r","o","s","e","M","i","r","r","o","r">>
                 \/ includes(a.classChain[k][t], <<"i","n","p","u","t">>)

\* C3: whenever the focused element is a typing target, the routine returns
\* {clicked: 0, skipped: 'user typing'} and clicks no element.
C3_TypingGuardFirst ==
    (scriptOut.ran /\ FocusIsTyping) =>
        /\ scriptOut.clicked = 0
        /\ scriptOut.skipped = "user typing"
        /\ scriptOut.clicks = <<>>

\* C3 witness: focus in a content-editable region while a button is there
\* that every element gate lets through
C3_Witness ==
    /\ scriptOut.ran
    /\ page.activeEl.isContentEditable
    /\ \E i \in DOMAIN page.buttons :
           /\ isAcceptButton(page.buttons[i])
           /\ ~safetyGateBlocks(page.buttons[i], scriptBlocklist(cfg))

\* C4: an element whose normalized text contains a reject pattern is never
\* clicked, also when the text contains an accept pattern.
C4_RejectWinsOverAccept ==
    scriptOut.ran =>
        \A i \in DOMAIN page.buttons :
            some(REJECT_PATTERNS, NormalizedText(page.buttons[i])) => i \notin Clicked

\* C4 witness: a rendered, enabled element with a reject and an accept
\* pattern in its text, evaluated with the focus outside any typing target
C4_Witness ==
    /\ scriptOut.ran
    /\ scriptOut.skipped # "user typing"
    /\ \E i \in DOMAIN page.buttons :
           LET el == page.buttons[i]
           IN  /\ some(REJECT_PATTERNS, NormalizedText(el))
               /\ some(ACCEPT_PATTERNS, NormalizedText(el))
               /\ el.display # "none" /\ el.width > 0
               /\ el.pointerEvents # "none" /\ ~el.disabled

(***************************************************************************)
(* Properties of the control channel and the loop (checked under Spec, the *)
(* liveness one under FairSpec).                                           *)
(***************************************************************************)
Pending(i) == i \in DOMAIN calls /\ calls[i].state = "pending"

\* C5: a call whose response never arrives is eventually rejected to its
\* caller (its pending entry is removed).
C5_UnansweredCallIsRejected ==
    \A i \in 1..MaxCalls : Pending(i) ~> (i \in DOMAIN calls /\ ~Pending(i))

\* C6: once the transport of a channel has closed, no call on it is still
\* pending.
C6_CloseRejectsPendingCalls ==
    \A i \in DOMAIN calls : sockState[calls[i].sock] = "closed" => ~Pending(i)

\* C7: after stop() has returned (and until start() is called again) no
\* socket is connecting or open, no timer is armed and no call is pending.
C7_NothingLeftAfterStop ==
    stopped =>
        /\ timers = {}
        /\ \A s \in Sockets : sockState[s] \notin {"connecting", "open"}
        /\ \A i \in DOMAIN calls : ~Pending(i)

\* C8: at most one open socket and at most one armed polling timer.
C8_AtMostOneChannelAndTimer ==
    /\ Cardinality({s \in Sockets : sockState[s] = "open"}) <= 1
    /\ Cardinality(timers) <= 1

\* C9: a failing poll cycle never stops the loop: when a cycle fails while
\* the loop is running, the loop is still running and its timer still armed.
C9_FailingCycleKeepsPolling ==
    [][ (event' = "cycle_failed" /\ isRunning /\ pollInterval # NULL /\ pollInterval \in timers)
        => (isRunning' /\ pollInterval' = pollInterval /\ pollInterval' \in timers') ]_vars

\* C9 witness: a cycle has just failed with the loop running and polling
C9_Witness ==
    event = "cycle_failed" /\ isRunning /\ pollInterval # NULL /\ pollInterval \in timers

\* C10: on one channel every id is above zero and greater than every id
\* issued before it, and no two pending calls share an id.
C10_IdsStrictlyIncrease ==
    /\ \A i \in DOMAIN calls : calls[i].id > 0
    /\ \A i, j \in DOMAIN calls :
           (i < j /\ calls[i].sock = calls[j].sock) => calls[i].id < calls[j].id
    /\ \A i, j \in DOMAIN calls :
           (i # j /\ Pending(i) /\ Pending(j) /\ calls[i].sock = calls[j].sock)
           => calls[i].id # calls[j].id

\* C10 witness: two calls pending at once on one channel, after an earlier
\* call on it has completed
C10_Witness ==
    \E h, i, j \in DOMAIN calls :
        /\ h < i /\ i < j
        /\ calls[h].sock = calls[i].sock /\ calls[i].sock = calls[j].sock
        /\ calls[h].state = "resolved" /\ Pending(i) /\ Pending(j)

\* C11: inbound messages are matched to pending calls by id alone.  A step
\* that completes a call is the arrival of the message carrying that call's
\* own id, on the socket the call was sent on, and completes no other call
\* (a result resolves it, an error rejects it), whatever the order of the
\* answers; a message whose id matches no pending call changes no call.
C11_CompletedOnlyByOwnId ==
    [][ /\ event' = "message_discarded" => calls' = calls
        /\ \A i \in DOMAIN calls :
              (calls[i].state = "pending" /\ calls'[i].state # "pending") =>
                  /\ ~calls[i].answered /\ calls'[i].answered
                  /\ sockState[calls[i].sock] \in {"open", "closing"}
                  /\ event' \in {"start_failed", "cycle_failed"}
                         <=> calls'[i].state = "rejected"
                  /\ \A j \in DOMAIN calls : j # i => calls'[j] = calls[j] ]_vars

\* C11 witness: two calls in flight on one socket, the later one completed
\* first, and a message of another id dropped while the earlier still waits
C11_Witness ==
    /\ event = "message_discarded"
    /\ \E i, j \in DOMAIN calls :
          /\ i < j
          /\ calls[i].sock = calls[j].sock
          /\ calls[i].state = "pending" /\ ~calls[i].answered
          /\ calls[j].state = "resolved"

\* the handshake of socket s has succeeded
Verified(s) ==
    \E h \in DOMAIN calls :
        /\ calls[h].sock = s
        /\ calls[h].method = "Runtime.enable"
        /\ calls[h].state = "resolved"

\* C12: the decision routine is never sent for evaluation on a channel that
\* is not connected and verified: the first call on a channel is the
\* Runtime.enable handshake, and a polling cycle is sent on a channel only
\* after the handshake on that channel has succeeded.
C12_NoEvaluationBeforeHandshake ==
    \A j \in DOMAIN calls :
        /\ (\A h \in 1..(j - 1) : calls[h].sock # calls[j].sock)
               => calls[j].method = "Runtime.enable"
        /\ (calls[j].method = "Runtime.evaluate" /\ event = "cycle_sent"
               /\ j = Len(calls))
               => Verified(calls[j].sock)

\* start() has just failed, or the channel of a running loop is dead, and
\* stop() was not called since
ConnectionFailed ==
    /\ ~stopped
    /\ \/ event = "start_failed"
       \/ isRunning /\ ws # NULL /\ sockState[ws] = "closed"

\* connect() is under way: the target list is being fetched
ConnectionAttempt == \E p \in StartIds : starts[p].pc = "fetch"

\* C13: after a connection failure the owner schedules rediscovery: while
\* automation is meant to be on (stop() was not called), a failed start or a
\* dead channel is eventually followed by a new connection attempt.
C13_FailureLeadsToReconnect ==
    [](ConnectionFailed => <>(ConnectionAttempt \/ stopped))

(***************************************************************************)
(* Properties of scanEnvironment (checked under HunterSpec).               *)
(***************************************************************************)
\* the probe that ended the scan with a result
LastProbe == scan.probes[Len(scan.probes)]

\* the numbers of a port listing that are port numbers above the
\* privileged range
PortNumbers(ws_) ==
    {n \in {parseInt(ws_[k]) : k \in {m \in DOMAIN ws_ : Len(ws_[m]) <= 5}} :
        n > 1024 /\ n <= 65535}

\* in round r the server of candidate c answers on port n
Verifies(r, c, n) ==
    /\ Answer(r).net[c.pid].ok
    /\ n \in PortNumbers(Answer(r).net[c.pid].words)
    /\ <<n, c.csrfToken>> \in Answer(r).up

\* C14: the scan returns at the first (candidate, port) pair that verifies:
\* probes go through the candidates in listing order and through each
\* candidate's ports in ascending order, no probe follows a successful one,
\* and the result is the smallest verifying port of the first candidate
\* that has one, with that candidate's token and auxiliary port.
C14_ReturnsFirstVerifyingPair ==
    /\ \A p \in DOMAIN scan.probes :
          scan.probes[p].ok =>
              /\ p = Len(scan.probes)
              /\ scan.pc = "done"
              /\ scan.result # NoResult
    /\ \A p, q \in DOMAIN scan.probes :
          p < q =>
              \/ scan.probes[p].round < scan.probes[q].round
              \/ /\ scan.probes[p].round = scan.probes[q].round
                 /\ \/ scan.probes[p].k < scan.probes[q].k
                    \/ /\ scan.probes[p].k = scan.probes[q].k
                       /\ scan.probes[p].port < scan.probes[q].port
    /\ scan.result # NoResult =>
          /\ LastProbe.ok
          /\ scan.result.connectPort = LastProbe.port
          /\ scan.result.csrfToken = scan.candidates[LastProbe.k].csrfToken
          /\ scan.result.extensionPort = scan.candidates[LastProbe.k].extensionPort
          /\ Verifies(LastProbe.round, scan.candidates[LastProbe.k], LastProbe.port)
          /\ \A k \in 1..LastProbe.k :
                \A n \in PortNumbers(Answer(LastProbe.round).net[scan.candidates[k].pid].words) :
                    (k < LastProbe.k \/ n < LastProbe.port)
                        => ~Verifies(LastProbe.round, scan.candidates[k], n)

\* C14 witness: the second candidate's server answered on its second port
\* after every probe of the first candidate had failed
C14_Witness ==
    /\ scan.result # NoResult
    /\ LastProbe.k = 2
    /\ \E p, q \in DOMAIN scan.probes :
          /\ scan.probes[p].round = LastProbe.round /\ scan.probes[p].k = 1
          /\ scan.probes[q].round = LastProbe.round /\ scan.probes[q].k = 2
          /\ ~scan.probes[q].ok

\* rounds and waits while the scan runs and when it has ended
RoundsAndWaits ==
    /\ scan.rounds <= scan.maxAttempts
    /\ scan.pc # "idle" => scan.waits = scan.rounds - 1
    /\ scan.pc = "backoff" => scan.rounds < scan.maxAttempts
    /\ (scan.pc = "done" /\ scan.result = NoResult) =>
          /\ scan.rounds = scan.maxAttempts
          /\ scan.waits = scan.maxAttempts - 1

\* what is left of the scan, as a number: the rounds not yet begun weigh
\* 100 each (a round has fewer than 100 steps: at most 4 candidates with at
\* most 9 ports each), the candidates not yet tried 10 each, the ports not
\* yet probed 1 each
StepsLeft(sc) ==
    CASE sc.pc = "idle" -> (sc.maxAttempts + 1) * 100
      [] sc.pc = "find" -> (sc.maxAttempts - sc.i) * 100
      [] sc.pc = "ports" -> (sc.maxAttempts - sc.i) * 100 - 1 - (sc.k - 1) * 10
      [] sc.pc = "ping" -> (sc.maxAttempts - sc.i) * 100 - 1 - (sc.k - 1) * 10 - sc.j
      [] sc.pc = "backoff" -> (sc.maxAttempts - sc.i - 1) * 100 + 1
      [] OTHER -> 0

\* C15: scanEnvironment(maxAttempts) terminates (every command, request and
\* wait of it ends, and each step leaves strictly less to do, down to the
\* return); it never runs more than maxAttempts rounds and returns null
\* only after exactly maxAttempts failed rounds; the backoff wait happens
\* only between two rounds, so a scan that fails in every round has waited
\* maxAttempts - 1 times and not after the last round.
C15_TerminatesWithinMaxAttempts ==
    [][ /\ RoundsAndWaits /\ RoundsAndWaits'
        /\ StepsLeft(scan') < StepsLeft(scan)
        /\ StepsLeft(scan') >= 0
        /\ scan'.pc = "done" <=> StepsLeft(scan') = 0 ]_vars

\* C15 witness: null returned after two rounds and one wait
C15_Witness ==
    /\ scan.pc = "done" /\ scan.result = NoResult
    /\ scan.maxAttempts = 2 /\ scan.rounds = 2 /\ scan.waits = 1

\* the step ends a round without a result
RoundFails ==
    /\ scan.pc \in {"find", "ports", "ping"}
    /\ scan'.result = NoResult
    /\ \/ scan'.pc \in {"backoff", "done"}
       \/ scan'.pc = "find" /\ scan'.rounds = scan.rounds + 1

\* C16: no failure of a sub-step aborts the scan.  Whether the process
\* listing fails or gives no candidate, a port listing fails or gives no
\* port, or a probe fails: a round ends without a result only when every
\* candidate of its listing has been tried, and a failed round is followed
\* by the backoff wait and the next round whenever attempts remain.
C16_SubStepFailureDoesNotAbort ==
    [][ RoundFails =>
          /\ scan.k = Len(scan.candidates)
          /\ IF scan.rounds < scan.maxAttempts
             THEN scan'.pc = "backoff"
             ELSE scan'.pc = "done" ]_vars

\* C16 witness: after a round whose process listing failed, a round in
\* which the port listing of the first candidate failed gave the second
\* candidate's descriptor
C16_Witness ==
    /\ scan.result # NoResult
    /\ scan.rounds = 2
    /\ ~Answer(1).ps.ok
    /\ ~Answer(2).net[scan.candidates[1].pid].ok
    /\ LastProbe.k = 2

\* the candidates of round r
CandidatesIn(r) ==
    IF Answer(r).ps.ok
    THEN parseProcessInfo(platform, psOutput(platform, Answer(r).ps.rows))
    ELSE <<>>

\* some port of some candidate verifies in round r
SomeVerifies(r, candidates) ==
    \E k \in DOMAIN candidates :
        /\ Answer(r).net[candidates[k].pid].ok
        /\ \E n \in PortNumbers(Answer(r).net[candidates[k].pid].words) :
              Verifies(r, candidates[k], n)

RoundVerifies(r) == SomeVerifies(r, CandidatesIn(r))

\* C17: when round k is the first round in which some port verifies, the
\* scan returns a descriptor of that round after exactly k rounds; when no
\* round verifies it returns null.
C17_FirstVerifyingRoundReturns ==
    scan.pc = "done" =>
        LET good == {r \in 1..scan.maxAttempts : RoundVerifies(r)}
        IN  IF good = {} THEN scan.result = NoResult
            ELSE /\ scan.result # NoResult
                 /\ scan.rounds = CHOOSE r \in good : \A q \in good : r <= q
                 /\ <<scan.result.connectPort, scan.result.csrfToken>>
                        \in Answer(scan.rounds).up

\* C17 witness: maxAttempts = 2, the candidate of round 1 had no port, a
\* port verified in round 2
C17_Witness ==
    /\ scan.pc = "done" /\ scan.result # NoResult
    /\ scan.maxAttempts = 2 /\ scan.rounds = 2
    /\ \E p \in DOMAIN scan.listed : scan.listed[p].round = 1
    /\ \A p \in DOMAIN scan.probes : scan.probes[p].round = 2

\* C18: no port outside (1024, 65535] is probed, and the ports probed for
\* one candidate are distinct and ascending.
C18_ProbedPortsInRangeAscending ==
    /\ \A p \in DOMAIN scan.probes :
          scan.probes[p].port > 1024 /\ scan.probes[p].port <= 65535
    /\ \A p, q \in DOMAIN scan.probes :
          ( /\ p < q
            /\ scan.probes[p].round = scan.probes[q].round
            /\ scan.probes[p].k = scan.probes[q].k )
          => scan.probes[p].port < scan.probes[q].port
    /\ \A p, q \in DOMAIN scan.ports : p < q => scan.ports[p] < scan.ports[q]

\* C18 witness: a listing with a repeated port, numbers of the privileged
\* range and numbers above 65535: three ports probed for one candidate
C18_Witness ==
    \E p \in DOMAIN scan.probes :
        /\ p + 2 \in DOMAIN scan.probes
        /\ scan.probes[p + 2].round = scan.probes[p].round
        /\ scan.probes[p + 2].k = scan.probes[p].k
        /\ Len(Answer(scan.probes[p].round).net[scan.candidates[scan.probes[p].k].pid].words) > 10

\* the command line lacks the port flag, the token flag or the marker
Lacks(cmd) ==
    \/ ~includes(cmd, PORT_FLAG)
    \/ ~includes(cmd, TOKEN_FLAG)
    \/ ~includes(toLowerCase(cmd), DATA_DIR_FLAG \o <<" ">> \o MARKER)

\* the rows of the listing of the round under way
RowsNow == Answer(scan.i + 1).ps.rows

\* C19: a command line that lacks the port flag or the token flag is not a
\* candidate even when the marker is present, and neither is one that lacks
\* the marker: every candidate findProcesses returns comes from a row that
\* has all three.
C19_IncompleteCommandLineExcluded ==
    (scan.pc = "ports" /\ scan.k = 1) =>
        /\ Len(scan.candidates) <= Cardinality({r \in DOMAIN RowsNow : ~Lacks(RowsNow[r].cmd)})
        /\ \A k \in DOMAIN scan.candidates :
              \E r \in DOMAIN RowsNow :
                  /\ ~Lacks(RowsNow[r].cmd)
                  /\ parseInt(RowsNow[r].pid) = scan.candidates[k].pid

\* C19 witness: a listing with a row that lacks the token flag and two
\* complete rows gave two candidates
C19_Witness ==
    /\ scan.pc = "ports"
    /\ Len(scan.candidates) = 2
    /\ \E r \in DOMAIN RowsNow : ~includes(RowsNow[r].cmd, TOKEN_FLAG)

(***************************************************************************)
(* Properties of QuotaService.refresh (checked under QuotaSpec).           *)
(***************************************************************************)
\* the step sends the request of refresh p
RequestSent(p) ==
    quota.refreshes[p].pc # "fetch" /\ quota'.refreshes[p].pc = "fetch"

After(k) == IF k < Len(filter) THEN filter[k + 1].before ELSE cfg

\* the entry has the form /pattern/flags
SlashDelimited(e) == Len(e) >= 2 /\ e[1] = "/" /\ \E i \in 2..Len(e) : e[i] = "/"

\* C21: getBlocklist() returns the configured user patterns alone when that
\* list is non-empty (no default pattern merged in) and the built-in default
\* set when the configured list is absent or empty.
C21_UserPatternsReplaceDefaults ==
    \A k \in DOMAIN filter :
        filter[k].op = "getBlocklist" =>
            LET c == filter[k].before
            IN  IF c.defined /\ c.value # <<>>
                THEN filter[k].list = c.value
                ELSE filter[k].list = DEFAULT_BLOCKLIST

\* a custom list is returned as it is, with no default pattern in it
C21_Witness ==
    \E k \in DOMAIN filter :
        /\ filter[k].op = "getBlocklist"
        /\ filter[k].before.defined
        /\ filter[k].before.value # <<>>
        /\ filter[k].list = filter[k].before.value
        /\ \A d \in DOMAIN DEFAULT_BLOCKLIST : ~listIncludes(filter[k].list, DEFAULT_BLOCKLIST[d])

\* the pattern as it stands occurs in the command, letter case aside
Occurs(e, command) == includes(toLowerCase(command), toLowerCase(e))

\* the pattern, trimmed, is not empty and occurs in the command, letter case aside
OccursTrimmed(e, command) ==
    /\ trim(toLowerCase(e)) # <<>>
    /\ includes(toLowerCase(command), trim(toLowerCase(e)))

\* C22 as stated: isBlocked(command) is true whenever some literal blocklist
\* pattern occurs in the command as a case-insensitive substring, and false
\* when no pattern of the active (all literal) blocklist occurs in it.
C22_LiteralSubstringMatch ==
    \A k \in DOMAIN filter :
        filter[k].op = "isBlocked" =>
            LET active == getBlocklist(filter[k].before)
                literal == {e \in Range(active) : ~SlashDelimited(e)}
            IN  /\ (\E e \in literal : Occurs(e, filter[k].arg)) => filter[k].blocked
                /\ (literal = Range(active) /\ \A e \in literal : ~Occurs(e, filter[k].arg))
                       => ~filter[k].blocked

\* C22 as amended: isBlocked(command) is true whenever some literal blocklist
\* pattern, lower-cased and trimmed of surrounding white space, is non-empty
\* and occurs in the lower-cased command, and false when the active blocklist
\* holds literal patterns only and none of them, so trimmed, is non-empty and
\* occurs in it.
C22_TrimmedLiteralSubstringMatch ==
    \A k \in DOMAIN filter :
        filter[k].op = "isBlocked" =>
            LET active == getBlocklist(filter[k].before)
                literal == {e \in Range(active) : ~SlashDelimited(e)}
            IN  /\ (\E e \in literal : OccursTrimmed(e, filter[k].arg)) => filter[k].blocked
                /\ (literal = Range(active) /\ \A e \in literal : ~OccursTrimmed(e, filter[k].arg))
                       => ~filter[k].blocked

\* the scenario: blocklist ['rm -rf'], command 'RM -RF /tmp'
C22_Witness ==
    \E k \in DOMAIN filter :
        /\ filter[k].op = "isBlocked"
        /\ filter[k].before = Stored(<< <<"r","m"," ","-","r","f">> >>)
        /\ filter[k].arg = <<"R","M"," ","-","R","F"," ","/","t","m","p">>
        /\ filter[k].blocked

\* the text between the delimiting slashes of a /pattern/flags entry
InnerText(e) == substring(e, 1, lastIndexOf(e, "/"))

\* the entry's pattern and flags are ones new RegExp accepts
Compiles(e) ==
    LET given == substring(e, lastIndexOf(e, "/") + 1, Len(e))
    IN  RegExp(InnerText(e), IF given = <<>> THEN <<"i">> ELSE given).ok

\* C23: a /pattern/flags entry that fails to compile does not fail the
\* check: it degrades to a case-insensitive literal substring match on the
\* text between its slashes, and the remaining entries are still evaluated.
C23_UncompilableFallsBackToInnerText ==
    \A k \in DOMAIN filter :
        filter[k].op = "isBlocked" =>
            LET active == Range(getBlocklist(filter[k].before))
            IN  (\E bad \in active : SlashDelimited(bad) /\ ~Compiles(bad)) =>
                    /\ \A e \in active :
                           (SlashDelimited(e) /\ ~Compiles(e) /\ Occurs(InnerText(e), filter[k].arg))
                               => filter[k].blocked
                    /\ \A e \in active :
                           (~SlashDelimited(e) /\ OccursTrimmed(e, filter[k].arg))
                               => filter[k].blocked

\* C24: addToBlocklist(p) with p in the active blocklist and
\* removeFromBlocklist(p) with p absent from it leave the stored setting and
\* the result of getBlocklist() unchanged; the same add or the same remove
\* made twice gives the same blocklist as made once.
C24_MutationsIdempotent ==
    /\ \A k \in DOMAIN filter :
        LET present == listIncludes(getBlocklist(filter[k].before), filter[k].arg)
        IN  (\/ filter[k].op = "add" /\ present
             \/ filter[k].op = "remove" /\ ~present)
                => /\ After(k) = filter[k].before
                   /\ getBlocklist(After(k)) = getBlocklist(filter[k].before)
    /\ \A k \in DOMAIN filter :
        (/\ k > 1
         /\ filter[k].op \in {"add", "remove"}
         /\ filter[k - 1].op = filter[k].op
         /\ filter[k - 1].arg = filter[k].arg)
            => getBlocklist(After(k)) = getBlocklist(After(k - 1))

\* C25: from any blocklist state two consecutive resetBlocklist() calls
\* leave the same stored list and the same getBlocklist() result as one
\* call: the built-in default list.
C25_ResetIdempotent ==
    \A k \in DOMAIN filter :
        filter[k].op = "reset" =>
            /\ After(k) = Stored(DEFAULT_BLOCKLIST)
            /\ getBlocklist(After(k)) = DEFAULT_BLOCKLIST
            /\ (k > 1 /\ filter[k - 1].op = "reset") => After(k) = After(k - 1)

C25_Witness ==
    /\ Len(filter) >= 2
    /\ filter[Len(filter) - 1].op = "reset"
    /\ filter[Len(filter)].op = "reset"
    /\ filter[Len(filter) - 1].before.defined
    /\ filter[Len(filter) - 1].before.value # <<>>
    /\ filter[Len(filter) - 1].before.value # DEFAULT_BLOCKLIST
    /\ cfg = Stored(DEFAULT_BLOCKLIST)

(***************************************************************************)
(* More properties of the decision routine (checked under ScriptSpec).     *)
(***************************************************************************)
\* C27: the routine returns the count of the elements it activated and,
\* whenever it activated none, a diagnostic skip reason (a non-empty
\* skipped value), not only when the user is typing.
C27_SkipReasonWhenNothingClicked ==
    scriptOut.ran =>
        /\ scriptOut.clicked = Len(scriptOut.clicks)
        /\ scriptOut.clicked = 0 => scriptOut.skipped # "null"

\* the element is rendered and interactive
Rendered(el) == el.display # "none" /\ el.width # 0
Interactive(el) == el.pointerEvents # "none" /\ ~el.disabled

\* C30: an element is clicked only if its trimmed, lower-cased text is
\* non-empty, at most 50 characters long and contains an accept pattern,
\* and the element is rendered and interactive.
C30_OnlyEligibleElementsClicked ==
    \A i \in Clicked :
        LET el == page.buttons[i]
        IN  /\ Len(NormalizedText(el)) > 0
            /\ Len(NormalizedText(el)) <= 50
            /\ some(ACCEPT_PATTERNS, NormalizedText(el))
            /\ Rendered(el)
            /\ Interactive(el)

\* one element was clicked and another, whose text asks for a click, was
\* not because it is not rendered or not interactive
C30_Witness ==
    /\ scriptOut.ran
    /\ Clicked # {}
    /\ \E j \in DOMAIN page.buttons :
        /\ j \notin Clicked
        /\ some(ACCEPT_PATTERNS, NormalizedText(page.buttons[j]))
        /\ ~some(REJECT_PATTERNS, NormalizedText(page.buttons[j]))
        /\ ~(Rendered(page.buttons[j]) /\ Interactive(page.buttons[j]))

(***************************************************************************)
(* Properties of the running loop (checked under CycleSpec, the one about  *)
(* the toggle command under ToggleSpec).                                   *)
(***************************************************************************)
\* C26: each poll cycle works with one snapshot of the lists, taken when it
\* starts: a tick puts the blocklist the setting holds at that moment into
\* the call it sends, no later step changes the list of a call, and the
\* page evaluates a call with the list the call carries, whatever the
\* setting has become meanwhile.
C26_CycleUsesSnapshot ==
    [][/\ event' = "cycle_sent" =>
            /\ Len(calls') = Len(calls) + 1
            /\ calls'[Len(calls')].blocklist = scriptBlocklist(cfg)
       /\ \A i \in DOMAIN calls : calls'[i].blocklist = calls[i].blocklist
       /\ \A i \in remote' \ remote :
            scriptOut' = clickScript(page, calls[i].blocklist)]_vars

\* a cycle was evaluated after the blocklist changed under it, and the
\* changed list would have decided otherwise
C26_Witness ==
    /\ event = "evaluated"
    /\ \E i \in DOMAIN calls :
        /\ remote = {i}
        /\ calls[i].blocklist # scriptBlocklist(cfg)
        /\ scriptOut = clickScript(page, calls[i].blocklist)
        /\ scriptOut # clickScript(page, scriptBlocklist(cfg))

\* C28: a message that cannot be parsed fails at most the call it answers:
\* the channel stays as it is, the loop stays armed and running, and no
\* other pending call is completed or rejected.
C28_MalformedMessageFailsNoOtherCall ==
    [][event' = "message_malformed" =>
            /\ sockState' = sockState
            /\ ws' = ws
            /\ isRunning' = isRunning
            /\ pollInterval' = pollInterval
            /\ timers' = timers
            /\ DOMAIN calls' = DOMAIN calls
            /\ Cardinality({j \in DOMAIN calls : calls'[j].state # calls[j].state}) <= 1
            /\ \A j \in DOMAIN calls :
                   calls'[j].state # calls[j].state => calls'[j].state = "rejected"]_vars

\* the message came in on the only live socket while two calls were
\* pending on it, and the loop is still armed
C28_Witness ==
    /\ event = "message_malformed"
    /\ isRunning
    /\ pollInterval # NULL
    /\ pollInterval \in timers
    /\ Connected(ws, sockState)
    /\ \A s \in Sockets : sockState[s] \in {"open", "closing"} => s = ws
    /\ Cardinality({j \in DOMAIN calls : calls[j].sock = ws /\ calls[j].state = "pending"}) >= 2

\* C29: once the toggle command has set automation to OFF, no poll cycle
\* that starts while it is OFF clicks an element.
C29_NoClickWhileToggledOff ==
    [][\A i \in remote' \ remote :
            (~autoAccept.value /\ calls[i].id > autoAccept.since)
                => scriptOut'.clicked = 0]_vars

(***************************************************************************)
(* Further properties of the AutoClicker life cycle (checked under Spec).  *)
(***************************************************************************)
\* the Runtime.evaluate calls that are sent and not yet settled
InFlight == {i \in DOMAIN calls :
                calls[i].method = "Runtime.evaluate" /\ calls[i].state = "pending"}

\* C34: at most one evaluation of the decision routine is in flight at any
\* time: a tick starts no cycle while the call of the previous cycle still
\* awaits its response.
C34_AtMostOneEvaluationInFlight == Cardinality(InFlight) <= 1

\* no start() invocation is suspended (stop() is synchronous)
Settled == \A p \in StartIds : starts[p].pc \in {"idle", "returned", "failed", "done"}

\* C35: once every start() and stop() has settled, a polling timer exists
\* only if isRunning is true and a socket is held, and isRunning false
\* means no polling timer and no held socket.
C35_ConsistentOnceSettled ==
    Settled =>
        /\ (pollInterval # NULL \/ timers # {}) => (isRunning /\ ws # NULL)
        /\ ~isRunning => (pollInterval = NULL /\ timers = {} /\ ws = NULL)

\* the guard of sendCDP fails: no socket, or its readyState is not OPEN
NotConnected(w, st) == w = NULL \/ st[w] # "open"

\* C36: a call attempted while the socket is absent or not open fails at
\* once and changes nothing: no id is consumed, no message handler is
\* registered and nothing is sent.  The calls are those of a poll cycle and
\* the Runtime.enable of connect() (after its socket opened, on this.ws).
C36_FailedCallChangesNothing ==
    [][ ( \/ /\ \E t \in TimerIds : pollTick(t)
             /\ isRunning
             /\ NotConnected(ws, sockState)
          \/ /\ \E p \in StartIds : socketOpens(p)
             /\ NotConnected(ws, sockState') )
        => /\ messageId' = messageId
           /\ calls' = calls
           /\ event' \in {"cycle_failed", "start_failed"} ]_vars

\* a running loop's tick has just failed on a held socket that is no longer
\* open, after ids were issued, and not on an error response
C36_Witness ==
    /\ event = "cycle_failed"
    /\ isRunning
    /\ ws # NULL
    /\ sockState[ws] # "open"
    /\ messageId > 0
    /\ \A i \in DOMAIN calls : calls[i].state # "rejected"

(***************************************************************************)
(* A further property of the SafetyFilter (checked under FilterSpec).      *)
(***************************************************************************)
\* C37: after removeFromBlocklist(p) has completed, p is not in
\* getBlocklist(), whatever the blocklist state it started from.
C37_RemovedPatternIsGone ==
    \A k \in DOMAIN filter :
        filter[k].op = "remove" =>
            ~listIncludes(getBlocklist(After(k)), filter[k].arg)

(***************************************************************************)
(* A further property of QuotaService.refresh (checked under QuotaSpec).   *)
(***************************************************************************)
\* the refresh() invocations suspended in scanEnvironment
Scanning == {p \in RefreshIds : quota.refreshes[p].pc = "scan"}

\* the step is the failure of a request that was sent with a descriptor
\* other than the one held now, which a scan has verified since
DiscardsVerified(p) ==
    /\ quota.refreshes[p].pc = "fetch"
    /\ quota'.refreshes[p].pc = "failed"
    /\ quota.connectionInfo # NoResult
    /\ quota.connectionInfo # quota.refreshes[p].using
    /\ quota'.connectionInfo = NoResult

\* C39: at most one discovery scan is in progress at any time, however the
\* refresh() calls overlap, and a failing refresh never discards a
\* descriptor that a concurrent refresh has just verified.
C39_OneScanAtATime ==
    [][ /\ Cardinality(Scanning') <= 1
        /\ \A p \in RefreshIds : ~DiscardsVerified(p) ]_vars

(***************************************************************************)
(* The bootstrap of the control channel (checked under ConnectSpec).       *)
(***************************************************************************)
\* the entries of type 'page' in a list
PageEntries(targets) == {i \in DOMAIN targets : targets[i].type = "page"}

\* the list has a page target connect() can use
HasUsablePage(targets) ==
    \E i \in PageEntries(targets) : targets[i].webSocketDebuggerUrl # ""

\* the step is start() p getting its target list
ListArrives(p) == starts[p].pc = "fetch" /\ starts'[p].answer # 0

\* the list start() p was answered
Answered(p) == TargetLists[starts'[p].answer]

\* a start() that is answered a list without a usable page target fails,
\* opens no socket and leaves the loop not running with no polling timer
NoUsablePageFails(p) ==
    (ListArrives(p) /\ ~HasUsablePage(Answered(p))) =>
        /\ starts'[p].pc = "failed"
        /\ sockState' = sockState
        /\ ~isRunning'
        /\ pollInterval' = NULL
        /\ timers' = {}

\* C32: the bootstrap takes the first listed target of type 'page' as the
\* source of the socket URL; when the list has no usable page target,
\* connect fails, no socket is opened, and start() leaves the loop not
\* running with no polling timer.
C32_FirstPageTargetOrFailure ==
    [][\A p \in StartIds :
          /\ (ListArrives(p) /\ HasUsablePage(Answered(p))) =>
                 \A j \in PageEntries(Answered(p)) : starts'[p].target <= j
          /\ NoUsablePageFails(p)]_vars

(***************************************************************************)
(* The quota summary (checked under SummarySpec).                          *)
(***************************************************************************)
\* the entries of the answer that carry quota information
Quoted == {i \in DOMAIN service.response.clientModelConfigs :
              service.response.userStatus /\ service.response.clientModelConfigs[i].present}

\* the remaining fraction of entry i within [0, 1], an absent one being 0,
\* as a percentage in tenths
Remaining(i) ==
    LET fraction == service.response.clientModelConfigs[i].remainingFraction
    IN  IF ~fraction.defined \/ fraction.value < 0 THEN 0
        ELSE IF fraction.value > ONE THEN ONE
        ELSE fraction.value

\* the lowest remaining percentage over all models, in tenths
Lowest == CHOOSE m \in {Remaining(i) : i \in Quoted} : \A i \in Quoted : m <= Remaining(i)

\* the threshold in force, in tenths of a percent
Warning == (IF service.threshold.defined THEN service.threshold.value ELSE 30) * 10

\* the status that goes with a percentage given in tenths
StatusFor(tenths) ==
    IF tenths <= 100 THEN "critical"
    ELSE IF tenths <= Warning THEN "warning"
    ELSE "ok"

\* C33 as stated: the summary reports the lowest remaining percentage over
\* all models, within 0..100; the status is 'critical' when that percentage
\* is <= 10, otherwise 'warning' when it is <= the warning threshold,
\* otherwise 'ok'; and 'unknown' with percentage 0 when there are no models.
C33_SummaryIsLowestPercentage ==
    service.decoded =>
        IF Quoted = {}
        THEN service.currentQuota = [percentage |-> 0, status |-> "unknown"]
        ELSE /\ service.currentQuota.percentage \in 0..100
             /\ service.currentQuota.percentage * 10 = Lowest
             /\ service.currentQuota.status = StatusFor(service.currentQuota.percentage * 10)

\* C33, amended: the summary reports the lowest remaining percentage over
\* all models rounded to the nearest whole number (a half rounds up),
\* within 0..100 as each remaining fraction is clamped to [0,1] and an
\* absent one counts as 0; the status is decided on the lowest percentage
\* before rounding: 'critical' when it is <= 10, otherwise 'warning' when it
\* is <= the warning threshold, otherwise 'ok'; with no models the summary
\* is 'unknown' with percentage 0.
C33_SummaryIsRoundedLowest ==
    service.decoded =>
        IF Quoted = {}
        THEN service.currentQuota = [percentage |-> 0, status |-> "unknown"]
        ELSE /\ service.currentQuota.percentage \in 0..100
             /\ service.currentQuota.percentage * 10 - 5 <= Lowest
             /\ Lowest < service.currentQuota.percentage * 10 + 5
             /\ service.currentQuota.status = StatusFor(Lowest)

\* a summary of two models, one answered above 1 and one at 10.4 percent:
\* 10 is reported, and the status is 'warning'
C33_Witness ==
    /\ service.decoded
    /\ Cardinality(Quoted) = 2
    /\ \E i \in Quoted : service.response.clientModelConfigs[i].remainingFraction.value > ONE
    /\ Lowest = 104
    /\ service.currentQuota = [percentage |-> 10, status |-> "warning"]

(***************************************************************************)
(* Quota monitoring (checked under MonitorSpec).                           *)
(***************************************************************************)
\* C38: after stopMonitoring() has returned, monitoring stays stopped until
\* startMonitoring() is called again: no timer is armed and no step, a
\* configuration change included, triggers a refresh; and while monitoring,
\* a configuration change causes exactly one restart, with its one initial
\* refresh, however many restarts happened before.
C38_StoppedStaysStopped ==
    [][ /\ (service.halted /\ service'.op # "start") =>
              /\ service'.armed = {}
              /\ service'.refreshes = service.refreshes
        /\ (~service.halted /\ service.monitorInterval # NULL /\ service'.op = "change") =>
              /\ service'.restarts = 1
              /\ service'.refreshes = service.refreshes + 1 ]_vars

(***************************************************************************)
(* The status bar command.                                                 *)
(***************************************************************************)
\* the three named states as settings
OFF == [autoAccept |-> FALSE, autoRun |-> FALSE, multiTab |-> FALSE]
ON_SINGLE == [autoAccept |-> TRUE, autoRun |-> TRUE, multiTab |-> FALSE]
ON_MULTI == [autoAccept |-> TRUE, autoRun |-> TRUE, multiTab |-> TRUE]

NamedStates == {OFF, ON_SINGLE, ON_MULTI}

FollowingState(c) ==
    IF c = OFF THEN ON_SINGLE ELSE IF c = ON_SINGLE THEN ON_MULTI ELSE OFF

\* the invocations of cycleState that ran from call to return with no other
\* invocation of it under way
Consecutive(k) ==
    /\ host.commands[k].pc = "done"
    /\ host.commands[k].alone

\* C31: cycleState cycles OFF -> ON (Single Tab) -> ON (Multi-Tab) -> OFF.
\* An invocation that runs on its own from a named state ends in the state
\* that follows it; it has called AutoClicker.start() exactly when it left
\* OFF and AutoClicker.stop() exactly when it left Multi-Tab; a state shown
\* as off that an invocation ends in has all three settings false; and
\* three such invocations one after the other end in the state the first
\* one started from.
C31_CycleOffOnMultiOff ==
    /\ \A k \in DOMAIN host.commands :
          (Consecutive(k) /\ host.commands[k].from \in NamedStates) =>
             /\ host.commands[k].to = FollowingState(host.commands[k].from)
             /\ host.commands[k].called = "start" <=> host.commands[k].from = OFF
             /\ host.commands[k].called = "stop" <=> host.commands[k].from = ON_MULTI
    /\ \A k \in DOMAIN host.commands :
          (Consecutive(k) /\ ~isEnabled(host.commands[k].to)) =>
             host.commands[k].to = OFF
    /\ \A k \in DOMAIN host.commands :
          (/\ k + 2 \in DOMAIN host.commands
           /\ \A j \in k..(k + 2) : Consecutive(j)
           /\ host.commands[k].from \in NamedStates) =>
             host.commands[k + 2].to = host.commands[k].from

\* three invocations one after the other from a named state have returned,
\* the AutoClicker having been started and stopped on the way
C31_Witness ==
    /\ Len(host.commands) = 3
    /\ \A j \in 1..3 : Consecutive(j)
    /\ host.commands[1].from \in NamedStates
    /\ \E j \in 1..3 : host.commands[j].called = "start"
    /\ \E j \in 1..3 : host.commands[j].called = "stop"

\* what the status bar shows for the settings c when it is not loading
Displayed(c) ==
    IF ~(c.autoAccept \/ c.autoRun) THEN "off"
    ELSE IF c.multiTab THEN "multi"
    ELSE "on"

\* C40: the status bar does not stay in the loading state: once every
\* refresh that a refreshQuota command awaited has completed, the displayed
\* state is again the one the configuration calls for.
C40_LoadingEnds ==
    (host.refreshed > 0 /\ host.refreshing = 0) =>
        host.statusBar.state = Displayed(getAll(autoAccept, host))

====
